---- MODULE Spec2Model ----
(***************************************************************************)
(* Model of the option-pricing core of Black_Sholes                        *)
(* (src/src/utils/dateHelpers.ts): the business-day calculator, the        *)
(* normal-CDF approximation and the four Black-Scholes pricing functions.  *)
(*                                                                         *)
(* A Date is its time value.  The unit of time of the model is one hour    *)
(* (3 600 000 ms), so a time value is an integer number of hours since     *)
(* 1970-01-01T00:00Z, or NaN for an Invalid Date.  The host's time zone    *)
(* is a fixed offset of whole hours (local time = UTC + tz).               *)
(***************************************************************************)
EXTENDS Integers, Sequences, FiniteSets, TLC

VARIABLES
    pc,              \* the set of the steps taken so far
    tz,              \* host time-zone offset, hours east of UTC
    dataAtual,       \* valuation Date
    dataVencimento,  \* expiry Date
    diasUteis,       \* calcularDiasUteis(dataAtual, dataVencimento), once called
    anos,            \* calcularTempoEmAnos(dataAtual, dataVencimento), once called
    entrada,         \* the numeric arguments [S, K, r, sigma, p]
    classico,        \* [call, put] of blackScholesCall / blackScholesPut, once called
    modificado,      \* [call, put] of the Modified functions, once called
    ponto,           \* the argument x of normalCdf
    cdf,             \* [pos, neg]: normalCdf(x) and normalCdf(-x), once called
    objetos,         \* the Date objects: objetos[ref] is the Date of reference ref
    quadro,          \* the running call: its function, its step and its locals
    feitas,          \* the number of calls that have returned
    form,            \* FormPage: the texts of the fields
    error,           \* FormPage: the error message shown, if any
    rota,            \* the route of the page shown
    estado,          \* the state the last navigation carried
    chamadas,        \* the functions of the core the last calculation called
    edicoes,         \* the number of field edits made
    componente,      \* the search component mounted: the hook or the page
    relogio,         \* Date.now(), in milliseconds
    temporizadores,  \* the timers set and neither fired nor cleared
    pedidos,         \* the requests awaiting their response
    caches,          \* cacheAutocomplete, cacheLookup and marketDataCache
    hook,            \* useAssetSearch: its state and its refs
    pesquisa,        \* FormPage: the state and the refs of its search
    ultimo,          \* what the last step of the search did
    eventos,         \* the number of events of the user so far
    avancos,         \* the number of advances of the clock so far
    ids,             \* the number of timers and requests created so far
    volta            \* the round trip of a date text: written, read, written again

varsNucleo == <<pc, tz, dataAtual, dataVencimento, diasUteis, anos, entrada,
                classico, modificado, ponto, cdf>>
varsLaco == <<objetos, quadro, feitas>>
varsForm == <<form, error, rota, estado, chamadas, edicoes>>
varsBusca == <<componente, relogio, temporizadores, pedidos, caches, hook, pesquisa,
               ultimo, eventos, avancos, ids>>
varsVolta == <<volta>>
\* the variables the pricing core does not have
varsFora == <<varsLaco, varsForm, varsBusca, varsVolta>>
vars == <<varsNucleo, varsFora>>

\* the value of a result variable before the call that sets it
Nenhum == "none"

\* no call is running
QuadroOcioso ==
    [fn |-> "", passo |-> "ocioso", inicio |-> 0, fim |-> 0, cursor |-> 0,
     dias |-> 0, voltas |-> 0, valor |-> 0]

SemLaco == objetos = <<>> /\ quadro = QuadroOcioso /\ feitas = 0

\* no form is shown
SemForm ==
    /\ form = <<>>
    /\ error = Nenhum
    /\ rota = ""
    /\ estado = Nenhum
    /\ chamadas = {}
    /\ edicoes = 0

\* no search component is mounted
SemBusca ==
    /\ componente = ""
    /\ relogio = 0
    /\ temporizadores = {}
    /\ pedidos = {}
    /\ caches = Nenhum
    /\ hook = Nenhum
    /\ pesquisa = Nenhum
    /\ ultimo = Nenhum
    /\ eventos = 0
    /\ avancos = 0
    /\ ids = 0

\* no date text is on a round trip
SemVolta == volta = Nenhum

InicioFora == SemLaco /\ SemForm /\ SemBusca /\ SemVolta

\* The functions of the model are applied through Call, defined after them:
\* Call(f, args) is the function named f applied to the arguments args.
RECURSIVE Call(_, _)

(***************************************************************************)
(* The engine's calendar (ECMAScript Date): days <-> civil dates.          *)
(***************************************************************************)
HoursPerDay == 24

\* Days since 1970-01-01 of the proleptic Gregorian date y-m-d (m in 1..12).
DaysFromCivil(y, m, d) ==
    LET yy  == IF m <= 2 THEN y - 1 ELSE y
        era == yy \div 400
        yoe == yy - era * 400
        mp  == IF m > 2 THEN m - 3 ELSE m + 9
        doy == (153 * mp + 2) \div 5 + d - 1
        doe == yoe * 365 + yoe \div 4 - yoe \div 100 + doy
    IN  era * 146097 + doe - 719468

\* The civil date [y, m, d] of day number z (days since 1970-01-01).
CivilFromDays(z) ==
    LET zz  == z + 719468
        era == zz \div 146097
        doe == zz - era * 146097
        yoe == (doe - doe \div 1460 + doe \div 36524 - doe \div 146096) \div 365
        doy == doe - (365 * yoe + yoe \div 4 - yoe \div 100)
        mp  == (5 * doy + 2) \div 153
        d   == doy - (153 * mp + 2) \div 5 + 1
        m   == IF mp < 10 THEN mp + 3 ELSE mp - 9
        y   == yoe + era * 400 + (IF m <= 2 THEN 1 ELSE 0)
    IN  [y |-> y, m |-> m, d |-> d]

\* A Date: an Invalid Date, or a time value t in hours.
InvalidDate == [nan |-> TRUE, t |-> 0]
MkDate(t) == [nan |-> FALSE, t |-> t]

\* Date.UTC(year, monthIndex, day): years 0..99 mean 1900..1999, month and
\* day overflow carry (MakeDay); the result is a time value at midnight UTC.
DateUTC(year, monthIndex, day) ==
    LET y  == IF year >= 0 /\ year <= 99 THEN 1900 + year ELSE year
        ym == y + monthIndex \div 12
        mn == monthIndex % 12
    IN  (Call("DaysFromCivil", <<ym, mn + 1, 1>>) + day - 1) * HoursPerDay

\* getFullYear / getMonth / getDate: the civil date of the LOCAL time.
LocalCivil(zone, date) ==
    Call("CivilFromDays", <<(date.t + zone) \div HoursPerDay>>)
getFullYear(zone, date) == LocalCivil(zone, date).y
getMonth(zone, date) == LocalCivil(zone, date).m - 1
getDate(zone, date) == LocalCivil(zone, date).d

\* getUTCDay of a time value: 0 Sunday .. 6 Saturday (1970-01-01 is Thursday).
getUTCDay(t) == (t \div HoursPerDay + 4) % 7

(***************************************************************************)
(* calcularDiasUteis                                                       *)
(***************************************************************************)
\* new Date(Date.UTC(d.getFullYear(), d.getMonth(), d.getDate()))
NormalizarData(zone, date) ==
    IF date.nan THEN InvalidDate
    ELSE MkDate(DateUTC(getFullYear(zone, date), getMonth(zone, date),
                        getDate(zone, date)))

\* The while loop: the cursor takes the values inicio, inicio + 1 day, ...
\* below fim (setUTCDate(getUTCDate() + 1) adds one day to a UTC midnight), and
\* dias counts those whose getUTCDay is neither 0 (domingo) nor 6 (sabado).
\* a slip: the cursor starts one day after inicio
CursoresSemInicio(inicio, fim) ==
    {inicio + i * HoursPerDay :
        i \in 1..((fim - inicio + HoursPerDay - 1) \div HoursPerDay - 1)}

Cursores(inicio, fim) ==
    {inicio + i * HoursPerDay :
        i \in 0..((fim - inicio + HoursPerDay - 1) \div HoursPerDay - 1)}

\* a slip: only domingo is skipped
ContarDiasComSabado(inicio, fim) ==
    Cardinality({cursor \in Cursores(inicio, fim) : getUTCDay(cursor) # 0})

ContarDias(inicio, fim) ==
    Cardinality({cursor \in Cursores(inicio, fim) :
                    getUTCDay(cursor) # 0 /\ getUTCDay(cursor) # 6})

\* a slip: the days are counted whichever of the two dates comes first
calcularDiasUteisSemOrdem(zone, atual, vencimento) ==
    LET inicio == NormalizarData(zone, atual)
        fim    == NormalizarData(zone, vencimento)
    IN  IF inicio.nan \/ fim.nan THEN 0
        ELSE IF fim.t <= inicio.t THEN ContarDias(fim.t, inicio.t)
        ELSE ContarDias(inicio.t, fim.t)

calcularDiasUteis(zone, atual, vencimento) ==
    LET inicio == NormalizarData(zone, atual)
        fim    == NormalizarData(zone, vencimento)
    IN  \* a comparison with an Invalid Date (NaN) is false: the guard and the
        \* loop condition both fail and dias stays 0
        IF inicio.nan \/ fim.nan THEN 0
        ELSE IF fim.t <= inicio.t THEN 0
        ELSE ContarDias(inicio.t, fim.t)

(***************************************************************************)
(* The engine's numbers.  A JavaScript number is an IEEE-754 double; the    *)
(* model keeps its structure (a sign, a significand of bounded precision,   *)
(* an exponent of bounded range, signed zeros, +-Infinity and NaN, every    *)
(* operation rounded to nearest-even) in radix 10 with Precision            *)
(* significant digits.  Significands are naturals written as sequences of   *)
(* limbs in base 10^4, least significant first, without leading zero limbs. *)
(***************************************************************************)
Base == 10^4
Precision == 16      \* significant decimal digits of a number
MaxExp10 == 308      \* |x| >= 10^(MaxExp10+1) overflows to Infinity
MinExp10 == -324     \* |x| <  10^MinExp10 underflows to zero

\* TLC computes an operator's arguments and a LET definition only when they
\* are first used, inside whatever is being computed then.  Evaluated(v)
\* computes v here and now; it is TRUE for every v.  The series and the
\* formulas below use it to compute their intermediate results one after the
\* other, as the code does, which keeps the evaluation shallow.
Evaluated(v) == v = v

Round(neg, M, E) == Call("Round", <<neg, M, E>>)
Dec(n, e10) == Call("Dec", <<n, e10>>)            \* a literal
NumAdd(a, b) == Call("NumAdd", <<a, b>>)          \* a + b
NumMul(a, b) == Call("NumMul", <<a, b>>)          \* a * b
NumDiv(a, b) == Call("NumDiv", <<a, b>>)          \* a / b
NumSqrt(a) == Call("NumSqrt", <<a>>)              \* Math.sqrt(a)
NumExp(x) == Call("NumExp", <<x>>)                \* Math.exp(x)
NumLog(x) == Call("NumLog", <<x>>)                \* Math.log(x)

\* the operations on naturals
BAdd(a, b) == Call("BAdd", <<a, b>>)
BSub(a, b) == Call("BSub", <<a, b>>)
BCmp(a, b) == Call("BCmp", <<a, b>>)
BMulSmall(a, b) == Call("BMulSmall", <<a, b>>)
BMul(a, b) == Call("BMul", <<a, b>>)
BDivSmall(a, b) == Call("BDivSmall", <<a, b>>)
BMulPow10(a, b) == Call("BMulPow10", <<a, b>>)
BDivPow10(a, b) == Call("BDivPow10", <<a, b>>)
BDivMod(a, b) == Call("BDivMod", <<a, b>>)
BSqrt(a) == Call("BSqrt", <<a>>)

Rest(a) == IF a = <<>> THEN <<>> ELSE Tail(a)
Limb(a) == IF a = <<>> THEN 0 ELSE Head(a)

RECURSIVE BStrip(_)
BStrip(a) ==
    IF a = <<>> THEN <<>>
    ELSE IF a[Len(a)] = 0 THEN BStrip(SubSeq(a, 1, Len(a) - 1))
    ELSE a

RECURSIVE BAddC(_, _, _)
BAddC(a, b, c) ==
    IF a = <<>> /\ b = <<>> THEN (IF c = 0 THEN <<>> ELSE <<c>>)
    ELSE LET s == Limb(a) + Limb(b) + c
         IN  <<s % Base>> \o BAddC(Rest(a), Rest(b), s \div Base)

NatAdd(a, b) == BAddC(a, b, 0)

\* a - b - c for a >= b + c
RECURSIVE BSubC(_, _, _)
BSubC(a, b, c) ==
    IF a = <<>> THEN <<>>
    ELSE LET s == Limb(a) - Limb(b) - c
         IN  IF s < 0 THEN <<s + Base>> \o BSubC(Rest(a), Rest(b), 1)
             ELSE <<s>> \o BSubC(Rest(a), Rest(b), 0)

NatSub(a, b) == BStrip(BSubC(a, b, 0))

\* -1, 0, 1 as a < b, a = b, a > b
RECURSIVE BCmpFrom(_, _, _)
BCmpFrom(a, b, i) ==
    IF i = 0 THEN 0
    ELSE IF a[i] < b[i] THEN -1
    ELSE IF a[i] > b[i] THEN 1
    ELSE BCmpFrom(a, b, i - 1)

NatCmp(a, b) ==
    IF Len(a) < Len(b) THEN -1
    ELSE IF Len(a) > Len(b) THEN 1
    ELSE BCmpFrom(a, b, Len(a))

\* a * k + c for 0 <= k < Base
RECURSIVE BMulSmallC(_, _, _)
BMulSmallC(a, k, c) ==
    IF a = <<>> THEN (IF c = 0 THEN <<>> ELSE <<c>>)
    ELSE LET s == Head(a) * k + c
         IN  <<s % Base>> \o BMulSmallC(Tail(a), k, s \div Base)

NatMulSmall(a, k) == IF k = 0 THEN <<>> ELSE BMulSmallC(a, k, 0)

BShift(a, n) == IF a = <<>> THEN <<>> ELSE [i \in 1..n |-> 0] \o a

NatMul(a, b) ==
    IF b = <<>> \/ a = <<>> THEN <<>>
    ELSE LET rest == BMul(a, Tail(b))
         IN  IF Evaluated(rest)
             THEN BAdd(BMulSmall(a, Head(b)), BShift(rest, 1))
             ELSE <<>>

\* <<quotient, remainder>> of a by 0 < k < Base, from the most significant limb
\* down; q holds the quotient limbs found so far
RECURSIVE BDivSmallFrom(_, _, _, _, _)
BDivSmallFrom(a, k, i, r, q) ==
    IF i = 0 THEN <<q, r>>
    ELSE LET cur == r * Base + a[i]
         IN  BDivSmallFrom(a, k, i - 1, cur % k, <<cur \div k>> \o q)

NatDivSmall(a, k) ==
    LET qr == BDivSmallFrom(a, k, Len(a), 0, <<>>)
    IN  <<BStrip(qr[1]), qr[2]>>

BOfInt(n) ==
    IF n = 0 THEN <<>>
    ELSE IF n < Base THEN <<n>>
    ELSE IF n < Base * Base THEN <<n % Base, n \div Base>>
    ELSE <<n % Base, (n \div Base) % Base, n \div (Base * Base)>>

\* number of decimal digits of a (0 for zero)
LimbDigits(t) ==
    IF t >= 1000 THEN 4 ELSE IF t >= 100 THEN 3 ELSE IF t >= 10 THEN 2 ELSE 1

BDigits(a) == IF a = <<>> THEN 0 ELSE 4 * (Len(a) - 1) + LimbDigits(a[Len(a)])

NatMulPow10(a, n) == BShift(BMulSmall(a, 10^(n % 4)), n \div 4)

\* floor(a / 10^n)
NatDivPow10(a, n) ==
    LET k == n \div 4
    IN  IF k >= Len(a) THEN <<>>
        ELSE BDivSmall(SubSeq(a, k + 1, Len(a)), 10^(n % 4))[1]

\* Long division (Knuth's algorithm D): <<quotient, remainder>> of a by d # 0.
\* With the divisor's top limb at least Base/2 the estimate of a quotient
\* limb from the two top limbs of the running remainder is at most 2 too big.
RECURSIVE BFixQ(_, _, _)
BFixQ(r, d, q) ==
    LET dq == BMulSmall(d, q)
    IN  IF Evaluated(dq) /\ BCmp(dq, r) > 0 THEN BFixQ(r, d, q - 1) ELSE q

\* quo holds the quotient limbs found so far
RECURSIVE BDivFrom(_, _, _, _, _)
BDivFrom(a, d, i, r, quo) ==
    IF i = 0 THEN <<quo, r>>
    ELSE LET n    == Len(d)
             cur  == BStrip(<<a[i]>> \o r)
             top  == (IF Len(cur) > n THEN cur[n + 1] ELSE 0) * Base
                     + (IF Len(cur) >= n THEN cur[n] ELSE 0)
             est  == top \div d[n]
             q    == BFixQ(cur, d, IF est >= Base THEN Base - 1 ELSE est)
             dq   == BMulSmall(d, q)
             next == BSub(cur, dq)
         IN  IF Evaluated(q) /\ Evaluated(dq) /\ Evaluated(next)
             THEN BDivFrom(a, d, i - 1, next, <<q>> \o quo)
             ELSE <<quo, r>>

NatDivMod(a, d) ==
    LET f  == Base \div (d[Len(d)] + 1)
        af == BMulSmall(a, f)
        df == BMulSmall(d, f)
        qr == BDivFrom(af, df, Len(af), <<>>, <<>>)
    IN  IF Evaluated(af) /\ Evaluated(df) /\ Evaluated(qr)
        THEN <<BStrip(qr[1]), BDivSmall(qr[2], f)[1]>>
        ELSE <<>>

(***************************************************************************)
(* Numbers: [k, neg, m, e].  k = "fin": the value (-1)^neg * m * 10^e with  *)
(* m = 0 (e = 0) or m of exactly Precision digits; k = "inf", k = "nan".    *)
(***************************************************************************)
NaN == [k |-> "nan", neg |-> FALSE, m |-> <<>>, e |-> 0]
Infinity(neg) == [k |-> "inf", neg |-> neg, m |-> <<>>, e |-> 0]
Zero(neg) == [k |-> "fin", neg |-> neg, m |-> <<>>, e |-> 0]

IsNaN(a) == a.k = "nan"
IsInf(a) == a.k = "inf"
IsZero(a) == a.k = "fin" /\ a.m = <<>>
IsFinite(a) == a.k = "fin"          \* Number.isFinite

\* Overflow to Infinity, underflow to zero.
InRange(neg, m, e) ==
    IF e + Precision - 1 > MaxExp10 THEN Infinity(neg)
    ELSE IF e + Precision - 1 < MinExp10 THEN Zero(neg)
    ELSE [k |-> "fin", neg |-> neg, m |-> m, e |-> e]

\* The number nearest to (-1)^neg * M * 10^E, ties to even.
RoundToPrecision(neg, M, E) ==
    LET dg == BDigits(M)
    IN  IF M = <<>> THEN Zero(neg)
        ELSE IF dg <= Precision
        THEN InRange(neg, BMulPow10(M, Precision - dg), E - (Precision - dg))
        ELSE LET drop == dg - Precision
                 q    == BDivPow10(M, drop)
                 rem  == BSub(M, BMulPow10(q, drop))
                 half == BCmp(BMulSmall(rem, 2), BMulPow10(<<1>>, drop))
                 up   == half > 0 \/ (half = 0 /\ q[1] % 2 = 1)
                 q1   == IF up THEN BAdd(q, <<1>>) ELSE q
             IN  IF ~(Evaluated(q) /\ Evaluated(rem) /\ Evaluated(half)
                      /\ Evaluated(q1))
                 THEN NaN
                 ELSE IF BDigits(q1) > Precision
                 THEN InRange(neg, BDivPow10(q1, 1), E + drop + 1)
                 ELSE InRange(neg, q1, E + drop)

\* The number n * 10^e10 of a literal.
Literal(n, e10) == Round(n < 0, BOfInt(IF n < 0 THEN -n ELSE n), e10)
NumOfInt(n) == Dec(n, 0)
One == Dec(1, 0)

NumNeg(a) == IF IsNaN(a) THEN NaN ELSE [a EXCEPT !.neg = ~a.neg]
NumAbs(a) == IF IsNaN(a) THEN NaN ELSE [a EXCEPT !.neg = FALSE]   \* Math.abs

\* -1, 0, 1 as |a| < |b|, |a| = |b|, |a| > |b| (neither is NaN)
MagCmp(a, b) ==
    IF IsInf(a) \/ IsInf(b)
    THEN (IF IsInf(a) /\ IsInf(b) THEN 0 ELSE IF IsInf(a) THEN 1 ELSE -1)
    ELSE IF a.m = <<>> \/ b.m = <<>>
    THEN (IF a.m = <<>> /\ b.m = <<>> THEN 0 ELSE IF a.m = <<>> THEN -1 ELSE 1)
    ELSE IF a.e < b.e THEN -1
    ELSE IF a.e > b.e THEN 1
    ELSE BCmp(a.m, b.m)

\* -1, 0, 1 as a < b, a = b, a > b (neither is NaN; -0 = +0)
NumCmp(a, b) ==
    LET sa == IF IsZero(a) THEN 0 ELSE IF a.neg THEN -1 ELSE 1
        sb == IF IsZero(b) THEN 0 ELSE IF b.neg THEN -1 ELSE 1
    IN  IF sa < sb THEN -1
        ELSE IF sa > sb THEN 1
        ELSE IF sa = 0 THEN 0
        ELSE sa * MagCmp(a, b)

\* The relational operators: every comparison with NaN is false.
NumLt(a, b) == ~IsNaN(a) /\ ~IsNaN(b) /\ NumCmp(a, b) < 0
NumLe(a, b) == ~IsNaN(a) /\ ~IsNaN(b) /\ NumCmp(a, b) <= 0
NumGt(a, b) == ~IsNaN(a) /\ ~IsNaN(b) /\ NumCmp(a, b) > 0
NumEq(a, b) == ~IsNaN(a) /\ ~IsNaN(b) /\ NumCmp(a, b) = 0

\* a + b
Add(a, b) ==
    IF IsNaN(a) \/ IsNaN(b) THEN NaN
    ELSE IF IsInf(a) \/ IsInf(b)
    THEN (IF IsInf(a) /\ IsInf(b) /\ a.neg # b.neg THEN NaN
          ELSE IF IsInf(a) THEN a ELSE b)
    ELSE IF IsZero(a) /\ IsZero(b) THEN Zero(a.neg /\ b.neg)
    ELSE IF IsZero(a) THEN b
    ELSE IF IsZero(b) THEN a
    ELSE LET hi == IF a.e >= b.e THEN a ELSE b
             lo == IF a.e >= b.e THEN b ELSE a
             d  == hi.e - lo.e
         IN  IF d > Precision + 2 THEN hi
             ELSE LET H == BMulPow10(hi.m, d)
                      c == BCmp(H, lo.m)
                  IN  IF ~(Evaluated(H) /\ Evaluated(c)) THEN NaN
                      ELSE IF hi.neg = lo.neg THEN Round(hi.neg, BAdd(H, lo.m), lo.e)
                      ELSE IF c = 0 THEN Zero(FALSE)
                      ELSE IF c > 0 THEN Round(hi.neg, BSub(H, lo.m), lo.e)
                      ELSE Round(lo.neg, BSub(lo.m, H), lo.e)

NumSub(a, b) == NumAdd(a, NumNeg(b))

\* a * b
Mul(a, b) ==
    IF IsNaN(a) \/ IsNaN(b) THEN NaN
    ELSE IF (IsInf(a) /\ IsZero(b)) \/ (IsZero(a) /\ IsInf(b)) THEN NaN
    ELSE IF IsInf(a) \/ IsInf(b) THEN Infinity(a.neg # b.neg)
    ELSE Round(a.neg # b.neg, BMul(a.m, b.m), a.e + b.e)

\* a / b
Div(a, b) ==
    IF IsNaN(a) \/ IsNaN(b) THEN NaN
    ELSE IF (IsInf(a) /\ IsInf(b)) \/ (IsZero(a) /\ IsZero(b)) THEN NaN
    ELSE IF IsInf(a) \/ IsZero(b) THEN Infinity(a.neg # b.neg)
    ELSE IF IsInf(b) \/ IsZero(a) THEN Zero(a.neg # b.neg)
    ELSE LET A  == BMulPow10(a.m, Precision + 3)
             qr == BDivMod(A, b.m)
             Q  == BAdd(BMulSmall(qr[1], 10), IF qr[2] = <<>> THEN <<>> ELSE <<1>>)
         IN  IF Evaluated(A) /\ Evaluated(qr) /\ Evaluated(Q)
             THEN Round(a.neg # b.neg, Q, a.e - b.e - Precision - 4)
             ELSE NaN

\* a / n for an integer 0 < n < Base
NumDivInt(a, n) ==
    IF ~IsFinite(a) \/ IsZero(a) THEN a
    ELSE LET A  == BMulPow10(a.m, 6)
             qr == BDivSmall(A, n)
             Q  == BAdd(BMulSmall(qr[1], 10), IF qr[2] = 0 THEN <<>> ELSE <<1>>)
         IN  IF Evaluated(A) /\ Evaluated(qr) /\ Evaluated(Q)
             THEN Round(a.neg, Q, a.e - 7)
             ELSE NaN

\* Math.max(a, b): NaN if either is NaN, +0 above -0
NumMax(a, b) ==
    IF IsNaN(a) \/ IsNaN(b) THEN NaN
    ELSE IF NumCmp(a, b) > 0 THEN a
    ELSE IF NumCmp(a, b) < 0 THEN b
    ELSE IF a.neg THEN b ELSE a

(***************************************************************************)
(* Math.sqrt, Math.exp, Math.log.                                          *)
(***************************************************************************)
\* floor(sqrt(v)) of an integer 0 <= v < Base^2, by Newton's iteration from above
RECURSIVE ISqrtFrom(_, _)
ISqrtFrom(v, x) ==
    LET y == (x + v \div x) \div 2
    IN  IF y >= x THEN x ELSE ISqrtFrom(v, y)

ISqrt(v) == IF v = 0 THEN 0 ELSE ISqrtFrom(v, Base)

\* floor(sqrt(N)) of a natural N, by Newton's iteration from x >= sqrt(N)
RECURSIVE BSqrtFrom(_, _)
BSqrtFrom(N, x) ==
    LET quo == BDivMod(N, x)[1]
        y   == BDivSmall(BAdd(x, quo), 2)[1]
    IN  IF Evaluated(quo) /\ Evaluated(y) /\ BCmp(y, x) >= 0 THEN x
        ELSE BSqrtFrom(N, y)

\* N of 2n limbs: the start is the root of the two top limbs, rounded up
NatSqrt(N) ==
    LET n   == Len(N) \div 2
        top == N[2 * n] * Base + N[2 * n - 1]
    IN  BSqrtFrom(N, BShift(BOfInt(ISqrt(top) + 1), n - 1))

\* Math.sqrt: correctly rounded
Sqrt(a) ==
    IF IsNaN(a) THEN NaN
    ELSE IF IsZero(a) THEN a
    ELSE IF a.neg THEN NaN
    ELSE IF IsInf(a) THEN a
    ELSE LET s  == IF a.e % 2 = 0 THEN Precision ELSE Precision - 1
             N  == BMulPow10(a.m, s)
             r  == BSqrt(N)
             rr == BMul(r, r)
             up == BCmp(BSub(N, rr), r) > 0
         IN  IF Evaluated(N) /\ Evaluated(r) /\ Evaluated(rr) /\ Evaluated(up)
             THEN Round(FALSE, IF up THEN BAdd(r, <<1>>) ELSE r, (a.e - s) \div 2)
             ELSE NaN

LN10Hi == Dec(2302585, -6)                  \* ln 10 = LN10Hi + LN10Lo
LN10Lo == Round(FALSE, <<1799, 6840, 4045, 9299>>, -23)
LN10 == NumAdd(LN10Hi, LN10Lo)
LN2 == Round(FALSE, <<9453, 559, 4718, 6931>>, -16)
ExpTerms == 10       \* terms of the exponential series for |z| <= ln(10)/32
LogTerms == 11       \* terms of the atanh series for |z| <= 0.1716

\* the integer nearest to a, for |a| < Base
NearestInt(a) ==
    IF IsZero(a) THEN 0
    ELSE LET h == NumAdd(NumAbs(a), Dec(5, -1))
             q == BDivPow10(h.m, -h.e)
             n == IF q = <<>> THEN 0 ELSE q[1]
         IN  IF Evaluated(h) /\ Evaluated(q) /\ a.neg THEN -n ELSE n

\* 1 + z/2 (1 + z/3 (1 + ... (1 + z/ExpTerms))), from the innermost term
\* outwards: (exp(z) - 1) / z
RECURSIVE ExpSeries(_, _, _)
ExpSeries(z, n, acc) ==
    IF n = 1 THEN acc
    ELSE LET zn   == NumDivInt(z, n)
             term == NumMul(zn, acc)
             next == NumAdd(One, term)
         IN  IF Evaluated(zn) /\ Evaluated(term) /\ Evaluated(next)
             THEN ExpSeries(z, n - 1, next)
             ELSE NaN

\* q = exp(z) - 1 gives exp(2z) - 1 = q (2 + q); n times
RECURSIVE DoubleTimes(_, _)
DoubleTimes(q, n) ==
    IF n = 0 THEN q
    ELSE LET q2   == NumAdd(Dec(2, 0), q)
             next == NumMul(q, q2)
         IN  IF Evaluated(q2) /\ Evaluated(next)
             THEN DoubleTimes(next, n - 1)
             ELSE NaN

\* Math.exp: exp(x) = 10^k * exp(r) with r = x - k ln 10, and
\* exp(r) = 1 + q where q = exp(r) - 1 comes from exp(r/16) - 1 by 4 doublings
Exp(x) ==
    IF IsNaN(x) THEN NaN
    ELSE IF IsInf(x) THEN (IF x.neg THEN Zero(FALSE) ELSE x)
    ELSE IF IsZero(x) THEN One
    ELSE IF x.e + Precision - 1 >= 4 THEN (IF x.neg THEN Zero(FALSE) ELSE Infinity(FALSE))
    ELSE LET xl == NumDiv(x, LN10)
             k  == NearestInt(xl)
             kn == NumOfInt(k)
             hi == NumMul(kn, LN10Hi)
             lo == NumMul(kn, LN10Lo)
             r0 == NumSub(x, hi)
             r  == NumSub(r0, lo)
             z  == NumDivInt(r, 16)
             s  == ExpSeries(z, ExpTerms, One)
             q0 == NumMul(z, s)
             q  == DoubleTimes(q0, 4)
             y  == NumAdd(One, q)
         IN  IF Evaluated(xl) /\ Evaluated(k) /\ Evaluated(kn) /\ Evaluated(hi)
                /\ Evaluated(lo) /\ Evaluated(r0) /\ Evaluated(r)
                /\ Evaluated(z) /\ Evaluated(s) /\ Evaluated(q0)
                /\ Evaluated(q) /\ Evaluated(y)
             THEN Round(FALSE, y.m, y.e + k)
             ELSE NaN

\* 1/(2n+1) + w (1/(2n+3) + w (...)), from the innermost term outwards
RECURSIVE LogSeries(_, _, _)
LogSeries(w, n, acc) ==
    IF n < 0 THEN acc
    ELSE LET coef == NumDivInt(One, 2 * n + 1)
             term == NumMul(w, acc)
             next == NumAdd(coef, term)
         IN  IF Evaluated(coef) /\ Evaluated(term) /\ Evaluated(next)
             THEN LogSeries(w, n - 1, next)
             ELSE NaN

\* ln f = 2 atanh(z) = 2 z (1 + z^2/3 + z^4/5 + ...) with z = (f - 1)/(f + 1)
LogOfFraction(f) ==
    LET num == NumSub(f, One)
        den == NumAdd(f, One)
        z   == NumDiv(num, den)
        w   == NumMul(z, z)
        ser == LogSeries(w, LogTerms, Zero(FALSE))
        z2  == NumMul(Dec(2, 0), z)
    IN  IF Evaluated(num) /\ Evaluated(den) /\ Evaluated(z) /\ Evaluated(w)
           /\ Evaluated(ser) /\ Evaluated(z2)
        THEN NumMul(z2, ser)
        ELSE NaN

\* the j with f0 * 2^-j in [0.707, 1.414], for f0 in [0.3163, 3.163)
LogScale(f0) ==
    IF NumLt(f0, Dec(3536, -4)) THEN -2
    ELSE IF NumLt(f0, Dec(7071, -4)) THEN -1
    ELSE IF NumLt(f0, Dec(14142, -4)) THEN 0
    ELSE IF NumLt(f0, Dec(28284, -4)) THEN 1
    ELSE 2

\* f0 * 2^-j
LogFraction(f0, j) ==
    IF j = -2 THEN NumMul(f0, Dec(4, 0))
    ELSE IF j = -1 THEN NumMul(f0, Dec(2, 0))
    ELSE IF j = 0 THEN f0
    ELSE IF j = 1 THEN NumMul(f0, Dec(5, -1))
    ELSE NumMul(f0, Dec(25, -2))

\* Math.log: x = f * 10^e10 * 2^j with f in [0.707, 1.414], and
\* ln x = e10 ln 10 + j ln 2 + ln f
Log(x) ==
    IF IsNaN(x) THEN NaN
    ELSE IF IsZero(x) THEN Infinity(TRUE)
    ELSE IF x.neg THEN NaN
    ELSE IF IsInf(x) THEN x
    ELSE LET big == x.m[Len(x.m)] >= 3163
             e10 == IF big THEN x.e + Precision ELSE x.e + Precision - 1
             f0  == [x EXCEPT !.e = IF big THEN -Precision ELSE 1 - Precision]
             j   == LogScale(f0)
             f   == LogFraction(f0, j)
             lnf == Call("LogOfFraction", <<f>>)
             le  == NumMul(NumOfInt(e10), LN10)
             lj  == NumMul(NumOfInt(j), LN2)
             lej == NumAdd(le, lj)
         IN  IF Evaluated(j) /\ Evaluated(f) /\ Evaluated(lnf) /\ Evaluated(le)
                /\ Evaluated(lj) /\ Evaluated(lej)
             THEN NumAdd(lej, lnf)
             ELSE NaN

(***************************************************************************)
(* erf, normalCdf                                                          *)
(***************************************************************************)
SQRT2 == Round(FALSE, <<3095, 6237, 2135, 1414>>, -15)     \* Math.SQRT2

\* a slip: a1 cut to seven decimals
a1Truncado == Dec(2548296, -7)

a1 == Dec(254829592, -9)
a2 == Dec(-284496736, -9)
a3 == Dec(1421413741, -9)
a4 == Dec(-1453152027, -9)
a5 == Dec(1061405429, -9)
erfP == Dec(3275911, -7)            \* the constant p of erf

\* y = 1 - (((((a5 t + a4) t + a3) t + a2) t + a1) t) exp(-absX absX)
ErfY(absX) ==
    LET t  == NumDiv(One, NumAdd(One, NumMul(erfP, absX)))
        h5 == NumAdd(NumMul(a5, t), a4)
        h4 == NumAdd(NumMul(h5, t), a3)
        h3 == NumAdd(NumMul(h4, t), a2)
        h2 == NumAdd(NumMul(h3, t), a1)
        h1 == NumMul(h2, t)
        ex == NumExp(NumMul(NumNeg(absX), absX))
    IN  IF Evaluated(t) /\ Evaluated(h5) /\ Evaluated(h4) /\ Evaluated(h3)
           /\ Evaluated(h2) /\ Evaluated(h1) /\ Evaluated(ex)
        THEN NumSub(One, NumMul(h1, ex))
        ELSE NaN

\* a slip: return y, the sign forgotten
erfSemSinal(x) == ErfY(NumAbs(x))

erf(x) ==
    LET sign == IF NumLt(x, Zero(FALSE)) THEN Dec(-1, 0) ELSE One
        y    == ErfY(NumAbs(x))
    IN  IF Evaluated(y) THEN NumMul(sign, y) ELSE NaN

normalCdf(x) ==
    LET arg == NumDiv(x, SQRT2)
        e   == Call("erf", <<arg>>)
    IN  IF Evaluated(arg) /\ Evaluated(e)
        THEN NumMul(Dec(5, -1), NumAdd(One, e))
        ELSE NaN

(***************************************************************************)
(* calcularTempoEmAnos and the four pricing functions.  A pricing function *)
(* yields its return value and whether it took the formula branch, the     *)
(* one that divides by safeSigma * sqrt(T).                                *)
(***************************************************************************)
BUSINESS_DAYS_IN_YEAR == 252

calcularTempoEmAnos(zone, atual, vencimento) ==
    LET dias == Call("calcularDiasUteis", <<zone, atual, vencimento>>)
    IN  NumDiv(NumOfInt(dias), NumOfInt(BUSINESS_DAYS_IN_YEAR))

\* a slip: the value is passed on as it is
ensurePositiveSemPiso(value) == value

ensurePositive(value) == IF NumGt(value, Zero(FALSE)) THEN value ELSE Dec(1, -12)

Retorno(valor, dividiu) == [valor |-> valor, dividiu |-> dividiu]

\* a slip: Math.exp(r * T)
DescontoSemSinal(r, T) == NumExp(NumMul(r, T))

\* Math.exp(-r * T)
Desconto(r, T) == NumExp(NumMul(NumNeg(r), T))

\* safeSigma, sqrtT, d1, d2 of the classic formula
ClassicTerms(S, K, r, sigma, T) ==
    LET safeSigma == ensurePositive(sigma)
        sqrtT == NumSqrt(T)
        lg    == NumLog(NumDiv(S, K))
        drift == NumMul(NumAdd(r, NumMul(NumMul(Dec(5, -1), safeSigma), safeSigma)), T)
        den   == NumMul(safeSigma, sqrtT)
        d1    == NumDiv(NumAdd(lg, drift), den)
        d2    == NumSub(d1, den)
    IN  IF Evaluated(sqrtT) /\ Evaluated(lg) /\ Evaluated(drift) /\ Evaluated(den)
           /\ Evaluated(d1) /\ Evaluated(d2)
        THEN [d1 |-> d1, d2 |-> d2]
        ELSE [d1 |-> NaN, d2 |-> NaN]

\* S * normalCdf(d1) - K * Math.exp(-r * T) * normalCdf(d2)
ClassicCall(S, K, r, sigma, T) ==
    LET c    == Call("ClassicTerms", <<S, K, r, sigma, T>>)
        n1   == Call("normalCdf", <<c.d1>>)
        n2   == Call("normalCdf", <<c.d2>>)
        disc == Desconto(r, T)
    IN  IF Evaluated(c) /\ Evaluated(n1) /\ Evaluated(n2) /\ Evaluated(disc)
        THEN NumSub(NumMul(S, n1), NumMul(NumMul(K, disc), n2))
        ELSE NaN

\* K * Math.exp(-r * T) * normalCdf(-d2) - S * normalCdf(-d1)
ClassicPut(S, K, r, sigma, T) ==
    LET c    == Call("ClassicTerms", <<S, K, r, sigma, T>>)
        n1   == Call("normalCdf", <<NumNeg(c.d1)>>)
        n2   == Call("normalCdf", <<NumNeg(c.d2)>>)
        disc == Desconto(r, T)
    IN  IF Evaluated(c) /\ Evaluated(n1) /\ Evaluated(n2) /\ Evaluated(disc)
        THEN NumSub(NumMul(NumMul(K, disc), n2), NumMul(S, n1))
        ELSE NaN

\* a slip: the guard T <= 0 left out
blackScholesCallSemGuarda(zone, S, K, r, sigma, atual, vencimento) ==
    Retorno(Call("ClassicCall",
                 <<S, K, r, sigma,
                   Call("calcularTempoEmAnos", <<zone, atual, vencimento>>)>>),
            TRUE)

blackScholesCall(zone, S, K, r, sigma, atual, vencimento) ==
    LET T == Call("calcularTempoEmAnos", <<zone, atual, vencimento>>)
    IN  IF NumLe(T, Zero(FALSE))
        THEN Retorno(NumMax(NumSub(S, K), Zero(FALSE)), FALSE)
        ELSE Retorno(Call("ClassicCall", <<S, K, r, sigma, T>>), TRUE)

blackScholesPut(zone, S, K, r, sigma, atual, vencimento) ==
    LET T == Call("calcularTempoEmAnos", <<zone, atual, vencimento>>)
    IN  IF NumLe(T, Zero(FALSE))
        THEN Retorno(NumMax(NumSub(K, S), Zero(FALSE)), FALSE)
        ELSE Retorno(Call("ClassicPut", <<S, K, r, sigma, T>>), TRUE)

\* a slip: Math.exp(safeP * (sigmaSq / 2) * tau)
ATauSemMenosUm(safeP, sigmaSq, tau) ==
    NumExp(NumMul(NumMul(safeP, NumDiv(sigmaSq, Dec(2, 0))), tau))

\* Math.exp((safeP - 1) * (sigmaSq / 2) * tau)
ATau(safeP, sigmaSq, tau) ==
    NumExp(NumMul(NumMul(NumSub(safeP, One), NumDiv(sigmaSq, Dec(2, 0))), tau))

\* aTau, d1, d2 of the modified formula
ModifiedTerms(S, K, r, sigma, p, tau) ==
    LET safeSigma == ensurePositive(sigma)
        safeP    == ensurePositive(p)
        sigmaSq  == NumMul(safeSigma, safeSigma)
        sqrtPTau == NumSqrt(NumMul(safeP, tau))
        aTau     == ATau(safeP, sigmaSq, tau)
        lg       == NumLog(NumDiv(S, K))
        base     == NumAdd(NumSub(lg, NumMul(NumMul(Dec(5, -1), sigmaSq), tau)),
                           NumMul(r, tau))
        den      == NumMul(safeSigma, sqrtPTau)
        d1       == NumDiv(NumAdd(base, NumMul(NumMul(safeP, sigmaSq), tau)), den)
        d2       == NumDiv(base, den)
    IN  IF Evaluated(sigmaSq) /\ Evaluated(sqrtPTau) /\ Evaluated(aTau)
           /\ Evaluated(lg) /\ Evaluated(base) /\ Evaluated(den)
           /\ Evaluated(d1) /\ Evaluated(d2)
        THEN [aTau |-> aTau, d1 |-> d1, d2 |-> d2]
        ELSE [aTau |-> NaN, d1 |-> NaN, d2 |-> NaN]

\* aTau * S * normalCdf(d1) - K * Math.exp(-r * tau) * normalCdf(d2)
ModifiedCall(S, K, r, sigma, p, tau) ==
    LET m    == Call("ModifiedTerms", <<S, K, r, sigma, p, tau>>)
        n1   == Call("normalCdf", <<m.d1>>)
        n2   == Call("normalCdf", <<m.d2>>)
        disc == Desconto(r, tau)
    IN  IF Evaluated(m) /\ Evaluated(n1) /\ Evaluated(n2) /\ Evaluated(disc)
        THEN NumSub(NumMul(NumMul(m.aTau, S), n1), NumMul(NumMul(K, disc), n2))
        ELSE NaN

\* K * Math.exp(-r * tau) * normalCdf(-d2) - aTau * S * normalCdf(-d1)
ModifiedPut(S, K, r, sigma, p, tau) ==
    LET m    == Call("ModifiedTerms", <<S, K, r, sigma, p, tau>>)
        n1   == Call("normalCdf", <<NumNeg(m.d1)>>)
        n2   == Call("normalCdf", <<NumNeg(m.d2)>>)
        disc == Desconto(r, tau)
    IN  IF Evaluated(m) /\ Evaluated(n1) /\ Evaluated(n2) /\ Evaluated(disc)
        THEN NumSub(NumMul(NumMul(K, disc), n2), NumMul(NumMul(m.aTau, S), n1))
        ELSE NaN

blackScholesCallModified(zone, S, K, r, sigma, p, atual, vencimento) ==
    LET tau == Call("calcularTempoEmAnos", <<zone, atual, vencimento>>)
    IN  IF NumLe(tau, Zero(FALSE))
        THEN Retorno(NumMax(NumSub(S, K), Zero(FALSE)), FALSE)
        ELSE Retorno(Call("ModifiedCall", <<S, K, r, sigma, p, tau>>), TRUE)

blackScholesPutModified(zone, S, K, r, sigma, p, atual, vencimento) ==
    LET tau == Call("calcularTempoEmAnos", <<zone, atual, vencimento>>)
    IN  IF NumLe(tau, Zero(FALSE))
        THEN Retorno(NumMax(NumSub(K, S), Zero(FALSE)), FALSE)
        ELSE Retorno(Call("ModifiedPut", <<S, K, r, sigma, p, tau>>), TRUE)

(***************************************************************************)
(* Inputs.                                                                 *)
(***************************************************************************)
MaxDia == 9          \* the dates run over 2025-01-01 (a Wednesday) + 0..MaxDia
DiaBase == DaysFromCivil(2025, 1, 1)
Horas == {0, 3, 12, 23}              \* times of day, hours UTC
Fusos == {-12, -3, 0, 1, 14}         \* host time-zone offsets

\* parseDate yields midnight UTC of the date written; other callers may pass
\* any instant, or an Invalid Date
MeiaNoite(d) == MkDate((DiaBase + d) * HoursPerDay)
Datas == {MkDate((DiaBase + d) * HoursPerDay + h) : d \in 0..MaxDia, h \in Horas}
            \cup {InvalidDate}

\* the UTC calendar day of a valid Date, as a day number
DiaUTC(date) == date.t \div HoursPerDay

\* the calendar day of a valid Date on a host at offset zone, as a day number
DiaLocal(zone, date) == (date.t + zone) \div HoursPerDay

\* 2025-01-01, day DiaBase, is a Wednesday: 0 Sunday .. 6 Saturday
DiaDaSemana(d) == (d - DiaBase + 3) % 7
DiaDeSemana(d) == DiaDaSemana(d) \in 1..5

\* the Monday-to-Friday days d with a <= d < b, and with a < d < b
DiasDeSemanaDesde(a, b) == Cardinality({d \in a..(b - 1) : DiaDeSemana(d)})
DiasDeSemanaEntre(a, b) == Cardinality({d \in (a + 1)..(b - 1) : DiaDeSemana(d)})

(***************************************************************************)
(* Spec: calcularDiasUteis and calcularTempoEmAnos on a pair of Dates.     *)
(* pc is the set of the steps taken.                                       *)
(***************************************************************************)
Init ==
    /\ pc = {}
    /\ tz \in Fusos
    /\ dataAtual \in Datas
    /\ dataVencimento \in Datas
    /\ diasUteis = Nenhum
    /\ anos = Nenhum
    /\ entrada = Nenhum
    /\ classico = Nenhum
    /\ modificado = Nenhum
    /\ ponto = Nenhum
    /\ cdf = Nenhum
    /\ InicioFora

\* const diasUteis = calcularDiasUteis(dataAtual, dataVencimento);
\* const T = calcularTempoEmAnos(dataAtual, dataVencimento);
CalcularTempo ==
    /\ pc = {}
    /\ diasUteis' = Call("calcularDiasUteis", <<tz, dataAtual, dataVencimento>>)
    /\ anos' = Call("calcularTempoEmAnos", <<tz, dataAtual, dataVencimento>>)
    /\ pc' = {"tempo"}
    /\ UNCHANGED <<tz, dataAtual, dataVencimento, entrada, classico, modificado,
                   ponto, cdf>>
    /\ UNCHANGED varsFora

Next == CalcularTempo

Spec == Init /\ [][Next]_vars

Calculado == "tempo" \in pc
DatasValidas == ~dataAtual.nan /\ ~dataVencimento.nan

(***************************************************************************)
(* C2: the result of calcularDiasUteis depends only on the calendar dates  *)
(* of its two arguments: it is the same whatever the time of day of each   *)
(* argument and whatever the host's time-zone offset.                      *)
(***************************************************************************)
C2_SoDatasDoCalendario ==
    (Calculado /\ DatasValidas) =>
        \A zone \in Fusos : \A h1 \in Horas : \A h2 \in Horas :
            calcularDiasUteis(zone,
                              MkDate(DiaUTC(dataAtual) * HoursPerDay + h1),
                              MkDate(DiaUTC(dataVencimento) * HoursPerDay + h2))
                = diasUteis

C4_TempoNuncaNegativo ==
    Calculado =>
        /\ diasUteis \in Nat
        /\ NumEq(anos, NumDiv(NumOfInt(diasUteis), Dec(252, 0)))
        /\ IsFinite(anos) /\ ~anos.neg
        /\ (DatasValidas /\ (\/ dataVencimento.t <= dataAtual.t
                             \/ DiaLocal(tz, dataVencimento) = DiaLocal(tz, dataAtual)))
           => (diasUteis = 0 /\ anos = Zero(FALSE))

C4_FimAntesDoInicio ==
    /\ Calculado /\ DatasValidas
    /\ DiaLocal(tz, dataVencimento) < DiaLocal(tz, dataAtual) - 2
    /\ \E d \in DiaLocal(tz, dataVencimento)..DiaLocal(tz, dataAtual) : DiaDeSemana(d)
    /\ diasUteis = 0
    /\ anos = Zero(FALSE)

(***************************************************************************)
(* C5, as claimed: T is the number of weekdays strictly between the        *)
(* valuation date and the expiry date, divided by 252.                     *)
(***************************************************************************)
C5_EstritamenteEntre ==
    (Calculado /\ DatasValidas) =>
        NumEq(anos, NumDiv(NumOfInt(DiasDeSemanaEntre(DiaLocal(tz, dataAtual),
                                                      DiaLocal(tz, dataVencimento))),
                           Dec(252, 0)))

(***************************************************************************)
(* C5, amended: T is the number of weekdays d with valuation date <= d <   *)
(* expiry date (the valuation date counts, the expiry date does not),      *)
(* divided by 252, the dates being the host-local calendar dates of the    *)
(* two arguments.                                                          *)
(***************************************************************************)
C5_DataDeAvaliacaoConta ==
    (Calculado /\ DatasValidas) =>
        NumEq(anos, NumDiv(NumOfInt(DiasDeSemanaDesde(DiaLocal(tz, dataAtual),
                                                      DiaLocal(tz, dataVencimento))),
                           Dec(252, 0)))

\* Monday to Tuesday: no weekday lies strictly between, and T is 1/252
C5_SegundaATerca ==
    /\ Calculado /\ DatasValidas
    /\ DiaDaSemana(DiaLocal(tz, dataAtual)) = 1
    /\ DiaLocal(tz, dataVencimento) = DiaLocal(tz, dataAtual) + 1
    /\ diasUteis = 1
    /\ NumGt(anos, Zero(FALSE))

(***************************************************************************)
(* SpecCdf: normalCdf applied at a point x and at -x.                      *)
(***************************************************************************)
MaxPonto == 24       \* the points i/4 for i in -MaxPonto..MaxPonto

Pontos ==
    {Dec(25 * i, -2) : i \in (-MaxPonto)..MaxPonto}
        \cup {Zero(TRUE)}
        \cup {Dec(sg, ex) : sg \in {-1, 1}, ex \in {-300, -9, 2, 300}}

InitCdf ==
    /\ pc = {}
    /\ ponto \in Pontos
    /\ cdf = Nenhum
    /\ tz = Nenhum
    /\ dataAtual = Nenhum
    /\ dataVencimento = Nenhum
    /\ diasUteis = Nenhum
    /\ anos = Nenhum
    /\ entrada = Nenhum
    /\ classico = Nenhum
    /\ modificado = Nenhum
    /\ InicioFora

AplicarNormalCdf ==
    /\ pc = {}
    /\ cdf' = [pos |-> Call("normalCdf", <<ponto>>),
               neg |-> Call("normalCdf", <<NumNeg(ponto)>>)]
    /\ pc' = {"cdf"}
    /\ UNCHANGED <<tz, dataAtual, dataVencimento, diasUteis, anos, entrada,
                   classico, modificado, ponto>>
    /\ UNCHANGED varsFora

NextCdf == AplicarNormalCdf

SpecCdf == InitCdf /\ [][NextCdf]_vars

\* |a - b| <= tol; false when either is NaN
Dentro(a, b, tol) == NumLe(NumAbs(NumSub(a, b)), tol)

(***************************************************************************)
(* C9: for every finite x, normalCdf(-x) + normalCdf(x) is 1 within 1e-6,  *)
(* x = 0 and x = -0 included, where erf takes the positive sign for both.  *)
(***************************************************************************)
C9_Simetria ==
    ("cdf" \in pc) => Dentro(NumAdd(cdf.neg, cdf.pos), One, Dec(1, -6))

\* at -0 both values come from the positive branch and the sum is not 1
C9_MenosZero ==
    /\ "cdf" \in pc
    /\ ponto = Zero(TRUE)
    /\ cdf.neg = cdf.pos
    /\ NumGt(NumAdd(cdf.neg, cdf.pos), One)

(***************************************************************************)
(* C10: normalCdf(0) is 0.5 or differs from it by at most 1e-9, erf(0)     *)
(* being 1 - (a1 + a2 + a3 + a4 + a5).                                     *)
(***************************************************************************)
C10_MeioEmZero ==
    ("cdf" \in pc /\ ponto = Zero(FALSE)) =>
        /\ Dentro(cdf.pos, Dec(5, -1), Dec(1, -9))
        /\ Dentro(erf(ponto),
                  NumSub(One, NumAdd(NumAdd(NumAdd(NumAdd(a1, a2), a3), a4), a5)),
                  Dec(1, -12))

C10_QuaseMeio ==
    /\ "cdf" \in pc
    /\ ponto = Zero(FALSE)
    /\ cdf.pos # Dec(5, -1)
    /\ Dentro(cdf.pos, Dec(5, -1), Dec(1, -9))

(***************************************************************************)
(* SpecPrecos: the four pricing functions applied to one set of inputs, on *)
(* a grid of everyday magnitudes.  The date pairs are UTC midnights, as    *)
(* parseDate yields them: the same day, the end before the start, a        *)
(* Saturday to the Monday after, a Thursday to the Friday after, and 90    *)
(* calendar days.                                                          *)
(***************************************************************************)
Prazos == { <<0, 0>>, <<5, 2>>, <<3, 5>>, <<1, 2>>, <<0, 90>> }

Entradas(Ss, Ks, rs, sigmas, ps) ==
    [S : Ss, K : Ks, r : rs, sigma : sigmas, p : ps]

EntradasComuns ==
    Entradas({Dec(100, 0)},
             {Dec(95, 0), Dec(100, 0), Dec(105, 0)},
             {Dec(5, -2), Dec(-3125, -5)},
             {Dec(2, -1), Dec(25, -2), Zero(FALSE)},
             {One, Dec(5, -1)})

InitEntradas(entradas) ==
    /\ pc = {}
    /\ tz = 0
    /\ \E prazo \in Prazos :
          /\ dataAtual = MeiaNoite(prazo[1])
          /\ dataVencimento = MeiaNoite(prazo[2])
    /\ entrada \in entradas
    /\ classico = Nenhum
    /\ modificado = Nenhum
    /\ diasUteis = Nenhum
    /\ anos = Nenhum
    /\ ponto = Nenhum
    /\ cdf = Nenhum
    /\ InicioFora

InitPrecos == InitEntradas(EntradasComuns)

PrecificarClassico ==
    /\ "classico" \notin pc
    /\ classico' =
          [call |-> Call("blackScholesCall",
                         <<tz, entrada.S, entrada.K, entrada.r, entrada.sigma,
                           dataAtual, dataVencimento>>),
           put  |-> Call("blackScholesPut",
                         <<tz, entrada.S, entrada.K, entrada.r, entrada.sigma,
                           dataAtual, dataVencimento>>)]
    /\ pc' = pc \cup {"classico"}
    /\ UNCHANGED <<tz, dataAtual, dataVencimento, diasUteis, anos, entrada,
                   modificado, ponto, cdf>>
    /\ UNCHANGED varsFora

PrecificarModificado ==
    /\ "modificado" \notin pc
    /\ modificado' =
          [call |-> Call("blackScholesCallModified",
                         <<tz, entrada.S, entrada.K, entrada.r, entrada.sigma,
                           entrada.p, dataAtual, dataVencimento>>),
           put  |-> Call("blackScholesPutModified",
                         <<tz, entrada.S, entrada.K, entrada.r, entrada.sigma,
                           entrada.p, dataAtual, dataVencimento>>)]
    /\ pc' = pc \cup {"modificado"}
    /\ UNCHANGED <<tz, dataAtual, dataVencimento, diasUteis, anos, entrada,
                   classico, ponto, cdf>>
    /\ UNCHANGED varsFora

NextPrecos == PrecificarClassico \/ PrecificarModificado

SpecPrecos == InitPrecos /\ [][NextPrecos]_vars

\* T = calcularTempoEmAnos(start, end) of the state's dates
Tempo == calcularTempoEmAnos(tz, dataAtual, dataVencimento)

(***************************************************************************)
(* C1: whenever T <= 0 (the dates equal, or the end before the start) the  *)
(* four functions return exactly the intrinsic value, max(S - K, 0) for    *)
(* the calls and max(K - S, 0) for the puts, without reaching the division *)
(* by sigma * sqrt(T).                                                     *)
(***************************************************************************)
C1_ValorIntrinseco ==
    NumLe(Tempo, Zero(FALSE)) =>
        LET call == Retorno(NumMax(NumSub(entrada.S, entrada.K), Zero(FALSE)), FALSE)
            put  == Retorno(NumMax(NumSub(entrada.K, entrada.S), Zero(FALSE)), FALSE)
        IN  /\ ("classico" \in pc) => (classico.call = call /\ classico.put = put)
            /\ ("modificado" \in pc) => (modificado.call = call /\ modificado.put = put)

\* the end before the start, S above K and sigma 0
C1_VencimentoPassado ==
    /\ pc = {"classico", "modificado"}
    /\ dataVencimento.t < dataAtual.t
    /\ entrada.sigma = Zero(FALSE)
    /\ entrada.K = Dec(95, 0)
    /\ classico.call.valor = Dec(5, 0) /\ classico.put.valor = Zero(FALSE)
    /\ modificado.call.valor = Dec(5, 0) /\ modificado.put.valor = Zero(FALSE)
    /\ ~classico.call.dividiu /\ ~modificado.put.dividiu

\* call - put, and S - K * exp(-r * T)
ParidadeLhs == NumSub(classico.call.valor, classico.put.valor)
ValorPresenteK == NumMul(entrada.K, NumExp(NumMul(NumNeg(entrada.r), Tempo)))
ParidadeRhs == NumSub(entrada.S, ValorPresenteK)

EntradasExtremas ==
    Entradas({Dec(100, 0)},
             {Dec(105, 0)},
             {Dec(5, -2), Dec(3000, 0), Dec(-2000, 0), Dec(-3000, 0)},
             {Zero(FALSE), Zero(TRUE), Dec(-5, -1), Dec(2, -1)},
             {Zero(FALSE), Dec(-1, 0), Dec(5, -1)})

InitExtremos == InitEntradas(EntradasExtremas)

SpecExtremos == InitExtremos /\ [][NextPrecos]_vars

\* sigma or p is not positive and the formula branch is taken
SemVolOuSemP ==
    /\ NumGt(Tempo, Zero(FALSE))
    /\ ~NumGt(entrada.sigma, Zero(FALSE)) \/ ~NumGt(entrada.p, Zero(FALSE))

PisoAplicado(value) ==
    ensurePositive(value) = IF NumGt(value, Zero(FALSE)) THEN value ELSE Dec(1, -12)

ResultadosFinitos ==
    /\ ("classico" \in pc) =>
          (IsFinite(classico.call.valor) /\ IsFinite(classico.put.valor))
    /\ ("modificado" \in pc) =>
          (IsFinite(modificado.call.valor) /\ IsFinite(modificado.put.valor))

MaxChamadas == 2     \* calls made one after the other on the same two Dates
MaxVoltas == 8       \* iterations the model lets one call make
MaxDiaLaco == 3      \* the dates span this many days

RefAtual == 1
RefVencimento == 2

Funcoes ==
    {"calcularDiasUteis", "calcularTempoEmAnos", "blackScholesCall",
     "blackScholesPut", "blackScholesCallModified", "blackScholesPutModified"}

\* from Friday 2025-01-03 on, at the first and at the last hour of the day
DatasLaco ==
    {MkDate((DiaBase + 2 + d) * HoursPerDay + h) : d \in 0..MaxDiaLaco, h \in {0, 23}}
        \cup {InvalidDate}

EntradaLaco ==
    [S |-> Dec(100, 0), K |-> Dec(95, 0), r |-> Dec(5, -2), sigma |-> Dec(2, -1),
     p |-> Dec(5, -1)]

\* a slip: no object is made, the Date it was to be made from is used
NaPropriaData(h, origem) == origem

\* new Date(...): the reference of a new object of the heap h
NovaData(h, origem) == Len(h) + 1

\* the heap h with the Date `data` at the reference ref
Gravar(h, ref, data) ==
    IF ref = Len(h) + 1 THEN Append(h, data) ELSE [h EXCEPT ![ref] = data]

\* a < b on two Dates: false when either is an Invalid Date
DataMenor(a, b) == ~a.nan /\ ~b.nan /\ a.t < b.t
\* a <= b on two Dates
DataMenorOuIgual(a, b) == ~a.nan /\ ~b.nan /\ a.t <= b.t

getUTCDate(t) == Call("CivilFromDays", <<t \div HoursPerDay>>).d

\* a slip: the day of the month is set to what it was
setUTCDateParado(t, dia) == t

\* setUTCDate(dia): the day of the month replaced, overflow carried into the
\* month and the year, the time of day kept
setUTCDate(t, dia) ==
    LET c == Call("CivilFromDays", <<t \div HoursPerDay>>)
    IN  (Call("DaysFromCivil", <<c.y, c.m, 1>>) + dia - 1) * HoursPerDay
            + (t % HoursPerDay)

\* the value a function computes from the count of calcularDiasUteis
ValorDaChamada(fn, e, dias) ==
    LET T == NumDiv(NumOfInt(dias), NumOfInt(BUSINESS_DAYS_IN_YEAR))
    IN  CASE fn = "calcularDiasUteis" -> dias
          [] fn = "calcularTempoEmAnos" -> T
          [] fn = "blackScholesCall" ->
                IF NumLe(T, Zero(FALSE))
                THEN Retorno(NumMax(NumSub(e.S, e.K), Zero(FALSE)), FALSE)
                ELSE Retorno(Call("ClassicCall", <<e.S, e.K, e.r, e.sigma, T>>), TRUE)
          [] fn = "blackScholesPut" ->
                IF NumLe(T, Zero(FALSE))
                THEN Retorno(NumMax(NumSub(e.K, e.S), Zero(FALSE)), FALSE)
                ELSE Retorno(Call("ClassicPut", <<e.S, e.K, e.r, e.sigma, T>>), TRUE)
          [] fn = "blackScholesCallModified" ->
                IF NumLe(T, Zero(FALSE))
                THEN Retorno(NumMax(NumSub(e.S, e.K), Zero(FALSE)), FALSE)
                ELSE Retorno(Call("ModifiedCall", <<e.S, e.K, e.r, e.sigma, e.p, T>>),
                             TRUE)
          [] fn = "blackScholesPutModified" ->
                IF NumLe(T, Zero(FALSE))
                THEN Retorno(NumMax(NumSub(e.K, e.S), Zero(FALSE)), FALSE)
                ELSE Retorno(Call("ModifiedPut", <<e.S, e.K, e.r, e.sigma, e.p, T>>),
                             TRUE)

InitLaco ==
    /\ pc = {}
    /\ tz \in {-3, 0}
    /\ dataAtual \in DatasLaco
    /\ dataVencimento \in DatasLaco
    /\ entrada = EntradaLaco
    /\ objetos = <<dataAtual, dataVencimento>>
    /\ quadro = QuadroOcioso
    /\ feitas = 0
    /\ diasUteis = Nenhum
    /\ anos = Nenhum
    /\ classico = Nenhum
    /\ modificado = Nenhum
    /\ ponto = Nenhum
    /\ cdf = Nenhum
    /\ SemForm
    /\ SemBusca
    /\ SemVolta

NucleoParado ==
    UNCHANGED <<pc, tz, dataAtual, dataVencimento, diasUteis, anos, entrada,
                classico, modificado, ponto, cdf, varsForm, varsBusca,
                varsVolta>>

\* one of the six functions is called with the two Dates
Chamar(fn) ==
    /\ quadro.passo \in {"ocioso", "retornou"}
    /\ feitas < MaxChamadas
    /\ quadro' = [QuadroOcioso EXCEPT !.fn = fn, !.passo = "normalizar"]
    /\ UNCHANGED <<objetos, feitas>>
    /\ NucleoParado

\* const inicio = new Date(Date.UTC(dataAtual.getFullYear(), ...))
NormalizarInicio ==
    /\ quadro.passo = "normalizar"
    /\ objetos' = Gravar(objetos, NovaData(objetos, RefAtual),
                         NormalizarData(tz, objetos[RefAtual]))
    /\ quadro' = [quadro EXCEPT !.passo = "normalizar fim",
                                !.inicio = NovaData(objetos, RefAtual)]
    /\ UNCHANGED feitas
    /\ NucleoParado

\* const fim = new Date(Date.UTC(dataVencimento.getFullYear(), ...))
NormalizarFim ==
    /\ quadro.passo = "normalizar fim"
    /\ objetos' = Gravar(objetos, NovaData(objetos, RefVencimento),
                         NormalizarData(tz, objetos[RefVencimento]))
    /\ quadro' = [quadro EXCEPT !.passo = "guarda",
                                !.fim = NovaData(objetos, RefVencimento)]
    /\ UNCHANGED feitas
    /\ NucleoParado

\* if (fim <= inicio) return 0; let dias = 0; const cursor = new Date(inicio)
Guarda ==
    /\ quadro.passo = "guarda"
    /\ IF DataMenorOuIgual(objetos[quadro.fim], objetos[quadro.inicio])
       THEN /\ quadro' = [quadro EXCEPT !.passo = "retorno", !.dias = 0]
            /\ UNCHANGED objetos
       ELSE LET cursor == NovaData(objetos, quadro.inicio)
            IN  /\ objetos' = Gravar(objetos, cursor, objetos[quadro.inicio])
                /\ quadro' = [quadro EXCEPT !.passo = "laco", !.dias = 0,
                                            !.cursor = cursor]
    /\ UNCHANGED feitas
    /\ NucleoParado

\* one iteration of while (cursor < fim)
Iterar ==
    /\ quadro.passo = "laco"
    /\ quadro.voltas < MaxVoltas
    /\ DataMenor(objetos[quadro.cursor], objetos[quadro.fim])
    /\ LET t         == objetos[quadro.cursor].t
           diaSemana == getUTCDay(t)
       IN  /\ quadro' =
                 [quadro EXCEPT
                    !.dias = IF diaSemana # 0 /\ diaSemana # 6 THEN @ + 1 ELSE @,
                    !.voltas = @ + 1]
           /\ objetos' = Gravar(objetos, quadro.cursor,
                                MkDate(setUTCDate(t, getUTCDate(t) + 1)))
    /\ UNCHANGED feitas
    /\ NucleoParado

\* the loop condition fails
Sair ==
    /\ quadro.passo = "laco"
    /\ ~DataMenor(objetos[quadro.cursor], objetos[quadro.fim])
    /\ quadro' = [quadro EXCEPT !.passo = "retorno"]
    /\ UNCHANGED <<objetos, feitas>>
    /\ NucleoParado

\* return 0 / return dias: calcularDiasUteis hands the count to the function
\* that was called, and its objects are dropped
Voltar ==
    /\ quadro.passo = "retorno"
    /\ quadro' = [quadro EXCEPT !.passo = "calculo"]
    /\ objetos' = SubSeq(objetos, 1, 2)
    /\ UNCHANGED feitas
    /\ NucleoParado

\* the function that was called computes its value from the count and returns
Concluir ==
    /\ quadro.passo = "calculo"
    /\ quadro' = [quadro EXCEPT
                     !.passo = "retornou",
                     !.valor = Call("ValorDaChamada",
                                    <<quadro.fn, entrada, quadro.dias>>)]
    /\ feitas' = feitas + 1
    /\ UNCHANGED objetos
    /\ NucleoParado

\* the statements of calcularDiasUteis
PassoLaco ==
    NormalizarInicio \/ NormalizarFim \/ Guarda \/ Iterar \/ Sair \/ Voltar

NextLaco == (\E fn \in Funcoes : Chamar(fn)) \/ PassoLaco \/ Concluir

SpecLaco == InitLaco /\ [][NextLaco]_vars

\* calcularDiasUteis is synchronous: once entered, nothing holds its next
\* statement back
SpecLacoJusto == SpecLaco /\ WF_vars(PassoLaco)

EmChamada ==
    quadro.passo \in {"normalizar", "normalizar fim", "guarda", "laco", "retorno"}

\* whole days from inicio to fim, 0 unless fim is after inicio
DiasDeCalendario ==
    IF DataMenor(objetos[quadro.inicio], objetos[quadro.fim])
    THEN (objetos[quadro.fim].t - objetos[quadro.inicio].t) \div HoursPerDay
    ELSE 0

\* the loop of calcularDiasUteis makes at most as many iterations as
\* there are calendar days from inicio to fim (none when fim <= inicio or a
\* date is invalid), after k iterations the cursor is k days after inicio and
\* not after fim
LacoLimitado ==
    quadro.passo \in {"laco", "retorno"} =>
        /\ quadro.voltas <= DiasDeCalendario
        /\ quadro.voltas < MaxVoltas
        /\ quadro.passo = "laco" =>
              /\ objetos[quadro.cursor] =
                    IF objetos[quadro.inicio].nan THEN InvalidDate
                    ELSE MkDate(objetos[quadro.inicio].t
                                    + quadro.voltas * HoursPerDay)
              /\ quadro.voltas > 0 =>
                    DataMenorOuIgual(objetos[quadro.cursor], objetos[quadro.fim])
        /\ (dataAtual.nan \/ dataVencimento.nan
               \/ DataMenorOuIgual(objetos[quadro.fim], objetos[quadro.inicio]))
              => quadro.voltas = 0

\* C11: calcularDiasUteis always terminates: every call that is entered
\* returns, after a loop of at most as many iterations as there are calendar
\* days from inicio to fim (none when fim <= inicio or a date is invalid), in
\* which the cursor advances by one day per iteration and stops at fim.
C11_Termina ==
    []LacoLimitado /\ (EmChamada ~> quadro.passo = "calculo")

\* calcularDiasUteis has returned from a loop of three iterations, a Friday,
\* a Saturday and a Sunday
C11_TresVoltas ==
    quadro.passo = "calculo" /\ quadro.voltas = 3 /\ quadro.dias = 1

\* what the call of fn returns when it is the only call made
Sozinha(fn, zone, e, atual, vencimento) ==
    CASE fn = "calcularDiasUteis" ->
            Call("calcularDiasUteis", <<zone, atual, vencimento>>)
      [] fn = "calcularTempoEmAnos" ->
            Call("calcularTempoEmAnos", <<zone, atual, vencimento>>)
      [] fn \in {"blackScholesCall", "blackScholesPut"} ->
            Call(fn, <<zone, e.S, e.K, e.r, e.sigma, atual, vencimento>>)
      [] fn \in {"blackScholesCallModified", "blackScholesPutModified"} ->
            Call(fn, <<zone, e.S, e.K, e.r, e.sigma, e.p, atual, vencimento>>)

\* C12: at every statement of every call the two Date arguments hold the
\* dates they were given with, a call that has returned has left no other
\* object behind, and its value is the value of that call made alone on the
\* two dates, whatever calls were made before it.
C12_Pura ==
    /\ objetos[RefAtual] = dataAtual
    /\ objetos[RefVencimento] = dataVencimento
    /\ quadro.passo = "retornou" =>
          /\ Len(objetos) = 2
          /\ quadro.valor = Sozinha(quadro.fn, tz, entrada, dataAtual, dataVencimento)

\* the second call has returned, after a loop that moved its cursor, in a
\* time zone where the arguments are not at midnight of their local day
C12_SegundaChamada ==
    /\ quadro.passo = "retornou"
    /\ feitas = 2
    /\ quadro.voltas >= 2
    /\ tz = -3
    /\ dataAtual.t % HoursPerDay = 0
    /\ quadro.fn = "blackScholesCallModified"

(***************************************************************************)
(* Texts and their conversion.  A text is the sequence of its characters.   *)
(* Number(text) is StringToNumber of the engine: white space around the      *)
(* literal is dropped, the empty text is 0, the literal is Infinity with an  *)
(* optional sign, a decimal literal with an optional sign, or an unsigned    *)
(* binary, octal or hexadecimal integer; every other text is NaN.            *)
(***************************************************************************)
Brancos == {" ", "\t", "\n"}

ValorDoDigito ==
    [c \in {"0", "1", "2", "3", "4", "5", "6", "7", "8", "9",
            "a", "b", "c", "d", "e", "f", "A", "B", "C", "D", "E", "F"} |->
        CASE c = "0" -> 0 [] c = "1" -> 1 [] c = "2" -> 2 [] c = "3" -> 3
          [] c = "4" -> 4 [] c = "5" -> 5 [] c = "6" -> 6 [] c = "7" -> 7
          [] c = "8" -> 8 [] c = "9" -> 9
          [] c \in {"a", "A"} -> 10 [] c \in {"b", "B"} -> 11
          [] c \in {"c", "C"} -> 12 [] c \in {"d", "D"} -> 13
          [] c \in {"e", "E"} -> 14 [] c \in {"f", "F"} -> 15]

\* s is a run of digits of the radix (possibly empty)
Digitos(s, radix) ==
    \A i \in 1..Len(s) :
        s[i] \in DOMAIN ValorDoDigito /\ ValorDoDigito[s[i]] < radix

\* String.prototype.trim
RECURSIVE Trim(_)
Trim(s) ==
    IF s = <<>> THEN s
    ELSE IF Head(s) \in Brancos THEN Trim(Tail(s))
    ELSE IF s[Len(s)] \in Brancos THEN Trim(SubSeq(s, 1, Len(s) - 1))
    ELSE s

\* the position of the first character of s that is in cs, 0 when none is
Primeiro(s, cs) ==
    IF \E i \in 1..Len(s) : s[i] \in cs
    THEN CHOOSE i \in 1..Len(s) :
            s[i] \in cs /\ \A j \in 1..(i - 1) : s[j] \notin cs
    ELSE 0

\* the natural written by the digits s, as a significand
RECURSIVE NatDeDigitos(_, _, _)
NatDeDigitos(s, radix, acc) ==
    IF s = <<>> THEN acc
    ELSE NatDeDigitos(Tail(s), radix,
                      BAdd(BMulSmall(acc, radix), BOfInt(ValorDoDigito[Head(s)])))

\* the integer written by at most six digits; longer runs saturate
IntDeDigitos(s) ==
    LET sig == IF Primeiro(s, {"1", "2", "3", "4", "5", "6", "7", "8", "9"}) = 0
               THEN <<>>
               ELSE SubSeq(s, Primeiro(s, {"1", "2", "3", "4", "5", "6", "7", "8",
                                           "9"}), Len(s))
        n   == NatDeDigitos(sig, 10, <<>>)
    IN  IF Len(sig) > 6 THEN 10^6
        ELSE IF n = <<>> THEN 0
        ELSE IF Len(n) = 1 THEN n[1]
        ELSE n[1] + Base * n[2]

\* [sinal, resto] of a text with an optional sign in front
SemSinal(s) ==
    IF s # <<>> /\ Head(s) \in {"+", "-"}
    THEN [neg |-> Head(s) = "-", resto |-> Tail(s)]
    ELSE [neg |-> FALSE, resto |-> s]

\* StrDecimalLiteral without its sign: digits, an optional point, an optional
\* exponent; at least one digit before the exponent
NumeroDecimal(neg, s) ==
    LET pe    == Primeiro(s, {"e", "E"})
        mant  == IF pe = 0 THEN s ELSE SubSeq(s, 1, pe - 1)
        expo  == IF pe = 0 THEN <<>> ELSE SemSinal(SubSeq(s, pe + 1, Len(s)))
        pp    == Primeiro(mant, {"."})
        int   == IF pp = 0 THEN mant ELSE SubSeq(mant, 1, pp - 1)
        frac  == IF pp = 0 THEN <<>> ELSE SubSeq(mant, pp + 1, Len(mant))
        e10   == IF pe = 0 THEN 0
                 ELSE IF expo.neg THEN -IntDeDigitos(expo.resto)
                 ELSE IntDeDigitos(expo.resto)
    IN  IF ~Digitos(int, 10) \/ ~Digitos(frac, 10) \/ Len(int) + Len(frac) = 0
        THEN NaN
        ELSE IF pe # 0 /\ (expo.resto = <<>> \/ ~Digitos(expo.resto, 10))
        THEN NaN
        ELSE Round(neg, NatDeDigitos(int \o frac, 10, <<>>), e10 - Len(frac))

\* Number(text)
Number(text) ==
    LET s == Trim(text)
        u == SemSinal(s)
    IN  IF s = <<>> THEN Zero(FALSE)
        ELSE IF u.resto = <<"I", "n", "f", "i", "n", "i", "t", "y">>
        THEN Infinity(u.neg)
        ELSE IF Len(s) > 2 /\ s[1] = "0" /\ s[2] \in {"x", "X", "o", "O", "b", "B"}
        THEN LET radix == IF s[2] \in {"x", "X"} THEN 16
                          ELSE IF s[2] \in {"o", "O"} THEN 8 ELSE 2
                 ds    == SubSeq(s, 3, Len(s))
             IN  IF Digitos(ds, radix)
                 THEN Round(FALSE, NatDeDigitos(ds, radix, <<>>), 0)
                 ELSE NaN
        ELSE NumeroDecimal(u.neg, u.resto)

\* value.split('/')
RECURSIVE Split(_)
Split(s) ==
    LET p == Primeiro(s, {"/"})
    IN  IF p = 0 THEN <<s>>
        ELSE <<SubSeq(s, 1, p - 1)>> \o Split(SubSeq(s, p + 1, Len(s)))

\* Number(parts[i]); a missing part is undefined, and Number(undefined) is NaN
NumberDaParte(parts, i) ==
    IF i <= Len(parts) THEN Call("Number", <<parts[i]>>) ELSE NaN

\* ToIntegerOrInfinity of a finite number below 10^8 in size: the fraction
\* is dropped
Truncado(a) ==
    LET n == IF a.m = <<>> \/ a.e >= 0 THEN a.m ELSE BDivPow10(a.m, -a.e)
        v == IF n = <<>> THEN 0
             ELSE IF Len(n) = 1 THEN n[1]
             ELSE n[1] + Base * n[2]
    IN  IF a.neg THEN -v ELSE v

\* |a| < 10^digitos
Pequeno(a, digitos) == IsFinite(a) /\ (a.m = <<>> \/ a.e + Precision <= digitos)

\* null, or a Date
Nulo == [nulo |-> TRUE, data |-> InvalidDate]

\* parseDate(value).  Date.UTC is computed for years below 10^5 and months and
\* days below 10^6 in size, where its time value is always in the range of a
\* Date; the texts of the model stay below these sizes.
parseDate(value) ==
    LET parts == Split(value)
        day   == NumberDaParte(parts, 1)
        month == NumberDaParte(parts, 2)
        year  == NumberDaParte(parts, 3)
        mes   == NumSub(month, One)
    IN  IF IsNaN(day) \/ IsNaN(month) \/ IsNaN(year) \/ Len(value) < 8
        THEN Nulo
        \* new Date(Date.UTC(year, month - 1, day)): an infinite argument
        \* gives the time value NaN, and then null
        ELSE IF ~Pequeno(day, 6) \/ ~Pequeno(mes, 6) \/ ~Pequeno(year, 5)
        THEN Nulo
        ELSE [nulo |-> FALSE,
              data |-> MkDate(DateUTC(Truncado(year), Truncado(mes),
                                      Truncado(day)))]

(***************************************************************************)
(* SpecForm: FormPage.  The user edits the fields of the form and presses   *)
(* one of the two buttons; a calculation either sets the error or calls     *)
(* the pricing core and navigates to the result page, from which Voltar     *)
(* leads back to a new form.                                                *)
(***************************************************************************)
MaxEdicoes == 2      \* field edits the model lets the user make

CamposNumericos == {"S", "K", "r", "sigma", "p"}
CamposDeData == {"dataAtual", "dataVencimento"}

\* initialState, on 2025-01-03: the valuation date and the date 90 days on
initialState ==
    [S |-> <<"1", "0", "0">>,
     K |-> <<"1", "0", "5">>,
     r |-> <<"0", ".", "0", "5">>,
     sigma |-> <<"0", ".", "2">>,
     p |-> <<"1", ".", "0">>,
     dataAtual |-> <<"0", "3", "/", "0", "1", "/", "2", "0", "2", "5">>,
     dataVencimento |-> <<"0", "3", "/", "0", "4", "/", "2", "0", "2", "5">>]

\* what the user types into a numeric field
TextosNumericos ==
    { <<>>,
      <<"a", "b", "c">>,
      <<"I", "n", "f", "i", "n", "i", "t", "y">>,
      <<"0">>,
      <<" ", "2", " ">> }

\* what the user types into a date field
TextosDeData ==
    { <<>>,
      <<"2", "0", "2", "5", "-", "0", "1", "-", "0", "6">>,
      <<"0", "6", "/", "0", "1", "/", "2", "0", "2", "5">> }

ErroNumeros == "Preencha valores numericos validos."
ErroP == "Parametro p deve ser maior que zero."
ErroDatas == "Datas devem estar no formato DD/MM/AAAA."

\* a slip: p is checked whichever button was pressed
PRecusadoSempre(requireP, p) == IsNaN(p) \/ NumLe(p, Zero(FALSE))

\* requireP && (Number.isNaN(p) || p <= 0)
PRecusado(requireP, p) == requireP /\ (IsNaN(p) \/ NumLe(p, Zero(FALSE)))

\* parseInputs(form, { requireP })
parseInputs(f, requireP) ==
    LET S     == Call("Number", <<f.S>>)
        K     == Call("Number", <<f.K>>)
        r     == Call("Number", <<f.r>>)
        sigma == Call("Number", <<f.sigma>>)
        p     == Call("Number", <<f.p>>)
        dataA == Call("parseDate", <<f.dataAtual>>)
        dataV == Call("parseDate", <<f.dataVencimento>>)
    IN  IF IsNaN(S) \/ IsNaN(K) \/ IsNaN(r) \/ IsNaN(sigma)
        THEN [ok |-> FALSE, error |-> ErroNumeros]
        ELSE IF PRecusado(requireP, p)
        THEN [ok |-> FALSE, error |-> ErroP]
        ELSE IF dataA.nulo \/ dataV.nulo
        THEN [ok |-> FALSE, error |-> ErroDatas]
        ELSE IF requireP
        THEN [ok |-> TRUE, S |-> S, K |-> K, r |-> r, sigma |-> sigma, p |-> p,
              dataAtual |-> dataA.data, dataVencimento |-> dataV.data]
        ELSE [ok |-> TRUE, S |-> S, K |-> K, r |-> r, sigma |-> sigma,
              dataAtual |-> dataA.data, dataVencimento |-> dataV.data]

\* what calculateClassic does with the form f on the page "/": the error it
\* sets, the functions of the core it calls, and the route and the state it
\* navigates to
ClassicoCalculado(zone, f) ==
    LET parsed == Call("parseInputs", <<f, FALSE>>)
    IN  IF ~parsed.ok
        THEN [error |-> parsed.error, chamadas |-> {}, rota |-> "/",
              estado |-> Nenhum]
        ELSE LET dias == Call("calcularDiasUteis",
                              <<zone, parsed.dataAtual, parsed.dataVencimento>>)
                 T    == Call("calcularTempoEmAnos",
                              <<zone, parsed.dataAtual, parsed.dataVencimento>>)
                 call == Call("blackScholesCall",
                              <<zone, parsed.S, parsed.K, parsed.r, parsed.sigma,
                                parsed.dataAtual, parsed.dataVencimento>>)
                 put  == Call("blackScholesPut",
                              <<zone, parsed.S, parsed.K, parsed.r, parsed.sigma,
                                parsed.dataAtual, parsed.dataVencimento>>)
             IN  [error |-> Nenhum,
                  chamadas |-> {"calcularDiasUteis", "calcularTempoEmAnos",
                                "blackScholesCall", "blackScholesPut"},
                  rota |-> "/resultado",
                  estado |-> [variant |-> "classico",
                              result |-> [call |-> call.valor, put |-> put.valor,
                                          T |-> T, diasUteis |-> dias,
                                          inputs |-> f]]]

\* what calculateModified does with the form f on the page "/"
ModificadoCalculado(zone, f) ==
    LET parsed == Call("parseInputs", <<f, TRUE>>)
    IN  IF ~parsed.ok
        THEN [error |-> parsed.error, chamadas |-> {}, rota |-> "/",
              estado |-> Nenhum]
        ELSE LET dias == Call("calcularDiasUteis",
                              <<zone, parsed.dataAtual, parsed.dataVencimento>>)
                 T    == Call("calcularTempoEmAnos",
                              <<zone, parsed.dataAtual, parsed.dataVencimento>>)
                 call == Call("blackScholesCallModified",
                              <<zone, parsed.S, parsed.K, parsed.r, parsed.sigma,
                                parsed.p, parsed.dataAtual,
                                parsed.dataVencimento>>)
                 put  == Call("blackScholesPutModified",
                              <<zone, parsed.S, parsed.K, parsed.r, parsed.sigma,
                                parsed.p, parsed.dataAtual,
                                parsed.dataVencimento>>)
             IN  [error |-> Nenhum,
                  chamadas |-> {"calcularDiasUteis", "calcularTempoEmAnos",
                                "blackScholesCallModified",
                                "blackScholesPutModified"},
                  rota |-> "/resultado-modificado",
                  estado |-> [variant |-> "modificado",
                              p |-> parsed.p,
                              result |-> [call |-> call.valor, put |-> put.valor,
                                          T |-> T, diasUteis |-> dias,
                                          inputs |-> f]]]

(***************************************************************************)
(* Call(f, args): the function named f applied to the arguments args.      *)
(***************************************************************************)
Call(f, args) ==
    IF ~Evaluated(args) THEN NaN ELSE
    CASE f = "BAdd" -> NatAdd(args[1], args[2])
      [] f = "BSub" -> NatSub(args[1], args[2])
      [] f = "BCmp" -> NatCmp(args[1], args[2])
      [] f = "BMulSmall" -> NatMulSmall(args[1], args[2])
      [] f = "BMul" -> NatMul(args[1], args[2])
      [] f = "BDivSmall" -> NatDivSmall(args[1], args[2])
      [] f = "BMulPow10" -> NatMulPow10(args[1], args[2])
      [] f = "BDivPow10" -> NatDivPow10(args[1], args[2])
      [] f = "BDivMod" -> NatDivMod(args[1], args[2])
      [] f = "BSqrt" -> NatSqrt(args[1])
      [] f = "Round"   -> RoundToPrecision(args[1], args[2], args[3])
      [] f = "Dec"     -> Literal(args[1], args[2])
      [] f = "NumAdd"  -> Add(args[1], args[2])
      [] f = "NumMul"  -> Mul(args[1], args[2])
      [] f = "NumDiv"  -> Div(args[1], args[2])
      [] f = "NumSqrt" -> Sqrt(args[1])
      [] f = "NumExp"  -> Exp(args[1])
      [] f = "NumLog"  -> Log(args[1])
      [] f = "erf" -> erf(args[1])
      [] f = "normalCdf" -> normalCdf(args[1])
      [] f = "ClassicTerms" ->
            ClassicTerms(args[1], args[2], args[3], args[4], args[5])
      [] f = "ClassicCall" ->
            ClassicCall(args[1], args[2], args[3], args[4], args[5])
      [] f = "ClassicPut" ->
            ClassicPut(args[1], args[2], args[3], args[4], args[5])
      [] f = "ModifiedTerms" ->
            ModifiedTerms(args[1], args[2], args[3], args[4], args[5], args[6])
      [] f = "ModifiedCall" ->
            ModifiedCall(args[1], args[2], args[3], args[4], args[5], args[6])
      [] f = "ModifiedPut" ->
            ModifiedPut(args[1], args[2], args[3], args[4], args[5], args[6])
      [] f = "CivilFromDays" -> CivilFromDays(args[1])
      [] f = "DaysFromCivil" -> DaysFromCivil(args[1], args[2], args[3])
      [] f = "calcularDiasUteis" -> calcularDiasUteis(args[1], args[2], args[3])
      [] f = "LogOfFraction" -> LogOfFraction(args[1])
      [] f = "calcularTempoEmAnos" ->
            calcularTempoEmAnos(args[1], args[2], args[3])
      [] f = "blackScholesCall" ->
            blackScholesCall(args[1], args[2], args[3], args[4], args[5],
                             args[6], args[7])
      [] f = "blackScholesPut" ->
            blackScholesPut(args[1], args[2], args[3], args[4], args[5],
                            args[6], args[7])
      [] f = "blackScholesCallModified" ->
            blackScholesCallModified(args[1], args[2], args[3], args[4], args[5],
                                     args[6], args[7], args[8])
      [] f = "blackScholesPutModified" ->
            blackScholesPutModified(args[1], args[2], args[3], args[4], args[5],
                                    args[6], args[7], args[8])
      [] f = "ValorDaChamada" -> ValorDaChamada(args[1], args[2], args[3])
      [] f = "Number" -> Number(args[1])
      [] f = "parseDate" -> parseDate(args[1])
      [] f = "parseInputs" -> parseInputs(args[1], args[2])
      [] f = "ClassicoCalculado" -> ClassicoCalculado(args[1], args[2])
      [] f = "ModificadoCalculado" -> ModificadoCalculado(args[1], args[2])

InitForm ==
    /\ pc = {}
    /\ tz = -3
    /\ form = initialState
    /\ error = Nenhum
    /\ rota = "/"
    /\ estado = Nenhum
    /\ chamadas = {}
    /\ edicoes = 0
    /\ dataAtual = Nenhum
    /\ dataVencimento = Nenhum
    /\ diasUteis = Nenhum
    /\ anos = Nenhum
    /\ entrada = Nenhum
    /\ classico = Nenhum
    /\ modificado = Nenhum
    /\ ponto = Nenhum
    /\ cdf = Nenhum
    /\ SemLaco
    /\ SemBusca
    /\ SemVolta

ForaDoForm ==
    UNCHANGED <<tz, dataAtual, dataVencimento, diasUteis, anos, entrada,
                classico, modificado, ponto, cdf, varsLaco, varsBusca,
                varsVolta>>

\* handleChange(key, value)
handleChange(key, value) ==
    /\ rota = "/"
    /\ edicoes < MaxEdicoes
    /\ form' = [form EXCEPT ![key] = value]
    /\ edicoes' = edicoes + 1
    /\ pc' = {"handleChange"}
    /\ UNCHANGED <<error, rota, estado, chamadas>>
    /\ ForaDoForm

\* calculateClassic
calculateClassic ==
    /\ rota = "/"
    /\ pc' = {"calculateClassic"}
    /\ \E feito \in {Call("ClassicoCalculado", <<tz, form>>)} :
          /\ error' = feito.error
          /\ chamadas' = feito.chamadas
          /\ rota' = feito.rota
          /\ estado' = feito.estado
    /\ UNCHANGED <<form, edicoes>>
    /\ ForaDoForm

\* calculateModified
calculateModified ==
    /\ rota = "/"
    /\ pc' = {"calculateModified"}
    /\ \E feito \in {Call("ModificadoCalculado", <<tz, form>>)} :
          /\ error' = feito.error
          /\ chamadas' = feito.chamadas
          /\ rota' = feito.rota
          /\ estado' = feito.estado
    /\ UNCHANGED <<form, edicoes>>
    /\ ForaDoForm

\* the Voltar button of ResultPage: navigate('/'), a new FormPage
VoltarAoForm ==
    /\ rota # "/"
    /\ rota' = "/"
    /\ estado' = Nenhum
    /\ form' = initialState
    /\ error' = Nenhum
    /\ chamadas' = {}
    /\ pc' = {"Voltar"}
    /\ UNCHANGED edicoes
    /\ ForaDoForm

NextForm ==
    \/ \E key \in CamposNumericos, value \in TextosNumericos :
          handleChange(key, value)
    \/ \E key \in CamposDeData, value \in TextosDeData : handleChange(key, value)
    \/ calculateClassic
    \/ calculateModified
    \/ VoltarAoForm

SpecForm == InitForm /\ [][NextForm]_vars

Calculou == pc \in {{"calculateClassic"}, {"calculateModified"}}

\* the text of a field denotes a finite number: it is not blank and its
\* number is neither NaN nor infinite
DenotaNumeroFinito(text) == Trim(text) # <<>> /\ IsFinite(Number(text))

EntradaAceitavel ==
    /\ \A campo \in {"S", "K", "r", "sigma"} : DenotaNumeroFinito(form[campo])
    /\ ~parseDate(form.dataAtual).nulo
    /\ ~parseDate(form.dataVencimento).nulo

\* C13: after calculateClassic or calculateModified, unless S, K, r and sigma
\* are texts of finite numbers and both dates parsed, the error is set, no
\* function of the pricing core was called and the page is still the form.
C13_SoNumerosFinitos ==
    (Calculou /\ ~EntradaAceitavel) =>
        (error # Nenhum /\ chamadas = {} /\ rota = "/")

\* the content of the p field is not a number above zero
PNaoPositivo == IsNaN(Number(form.p)) \/ NumLe(Number(form.p), Zero(FALSE))

\* what calculateClassic does with the form f: the error it sets, whether it
\* navigates, and the prices it navigates with
DesfechoClassico(f) ==
    LET parsed == parseInputs(f, FALSE)
    IN  IF parsed.ok THEN [error |-> Nenhum, rota |-> "/resultado"]
        ELSE [error |-> parsed.error, rota |-> "/"]

\* calculateClassic does what it does with any other text in the p field
ClassicoIgnoraP ==
    pc = {"calculateClassic"} =>
        \A texto \in TextosNumericos \cup {initialState.p} :
            [error |-> error, rota |-> rota]
                = DesfechoClassico([form EXCEPT !.p = texto])

\* C18 as stated: calculateModified with p not a number or p <= 0 sets the
\* error 'Parametro p deve ser maior que zero.', calls no pricing function
\* and does not navigate; calculateClassic ignores the p field.
C18_MensagemDeP ==
    /\ (pc = {"calculateModified"} /\ PNaoPositivo) =>
          (error = ErroP /\ chamadas = {} /\ rota = "/")
    /\ ClassicoIgnoraP

\* C18: calculateModified with p not a number or p <= 0 sets an error (the
\* message about p when S, K, r and sigma are numbers, the message about
\* numeric values otherwise), calls no pricing function and does not
\* navigate, so a navigation to the modified result carries p > 0;
\* calculateClassic ignores the p field.
C18_PRecusado ==
    /\ (pc = {"calculateModified"} /\ PNaoPositivo) =>
          /\ error = IF \E campo \in {"S", "K", "r", "sigma"} :
                            IsNaN(Number(form[campo]))
                     THEN ErroNumeros ELSE ErroP
          /\ chamadas = {}
          /\ rota = "/"
    /\ rota = "/resultado-modificado" => NumGt(estado.p, Zero(FALSE))
    /\ ClassicoIgnoraP

\* calculateModified was pressed with 0 in the p field and the other fields
\* as the form starts with
C18_PZero ==
    /\ pc = {"calculateModified"}
    /\ form = [initialState EXCEPT !.p = <<"0">>]
    /\ error = ErroP
    /\ rota = "/"

\* the numeric fields of the result that ResultPage displays
CamposExibidos ==
    {"call", "put", "T", "diasUteis", "deltaCall", "deltaPut", "vega", "gama"}

\* C20: on a result route, the result of the navigation has every numeric
\* field that ResultPage displays.
C20_CamposDefinidos ==
    rota \in {"/resultado", "/resultado-modificado"} =>
        CamposExibidos \subseteq DOMAIN estado.result

(***************************************************************************)
(* The search: the hook useAssetSearch and the search of FormPage.  Time is *)
(* Date.now() in milliseconds; a timer set with setTimeout may fire once    *)
(* the clock has reached its due time; a request is answered, fails or,     *)
(* once its signal is aborted, is rejected with an AbortError.              *)
(***************************************************************************)
MaxEventos == 3      \* events of the user (a text typed, an item chosen, a button)
MaxAvancos == 3      \* advances of the clock

AUTOCOMPLETE_TTL_MS == 60 * 1000
LOOKUP_TTL_MS == 5 * 60 * 1000
DEBOUNCE_MS == 350
AUTOCOMPLETE_MIN_CHARS == 2
AUTOCOMPLETE_DEBOUNCE_MS == 350
MARKET_CACHE_TTL_MS == 5 * 60 * 1000

\* by how much the clock advances between two events
Avancos == {DEBOUNCE_MS, AUTOCOMPLETE_TTL_MS, LOOKUP_TTL_MS}

Minusculas ==
    [c \in {"A", "B", "C", "E", "M", "P", "R", "S", "T", "V"} |->
        CASE c = "A" -> "a" [] c = "B" -> "b" [] c = "C" -> "c" [] c = "E" -> "e"
          [] c = "M" -> "m" [] c = "P" -> "p" [] c = "R" -> "r" [] c = "S" -> "s"
          [] c = "T" -> "t" [] c = "V" -> "v"]

\* String.prototype.toLowerCase, on the letters of the model's texts
toLowerCase(s) ==
    [i \in 1..Len(s) |-> IF s[i] \in DOMAIN Minusculas THEN Minusculas[s[i]] ELSE s[i]]

\* String.prototype.toUpperCase
toUpperCase(s) ==
    [i \in 1..Len(s) |->
        IF \E c \in DOMAIN Minusculas : Minusculas[c] = s[i]
        THEN CHOOSE c \in DOMAIN Minusculas : Minusculas[c] = s[i]
        ELSE s[i]]

\* replace(/\s+/g, ' '): every run of white space becomes one space
RECURSIVE UmEspaco(_)
UmEspaco(s) ==
    IF s = <<>> THEN s
    ELSE IF Head(s) \in Brancos
    THEN IF Len(s) > 1 /\ s[2] \in Brancos THEN UmEspaco(Tail(s))
         ELSE <<" ">> \o UmEspaco(Tail(s))
    ELSE <<Head(s)>> \o UmEspaco(Tail(s))

\* String.prototype.includes
includes(s, parte) ==
    \E i \in 0..(Len(s) - Len(parte)) : SubSeq(s, i + 1, i + Len(parte)) = parte

\* normalizeQuery / normalizeText: lower case, trimmed, single spaces
normalizeQuery(text) == UmEspaco(Trim(toLowerCase(text)))

\* a slip: the entry is not written
MapSetPerdido(map, key, value) == map

\* Map.set(key, value)
MapSet(map, key, value) ==
    [k \in DOMAIN map \cup {key} |-> IF k = key THEN value ELSE map[k]]

\* controller.abort(): the request of the controller, if it is still awaited,
\* has its signal aborted
Abortar(ps, controller) ==
    {IF q.id = controller THEN [q EXCEPT !.abortado = TRUE] ELSE q : q \in ps}

\* a slip: the timer is left pending
clearTimeoutEsquecido(ts, timer) == ts

\* clearTimeout(timer)
clearTimeout(ts, timer) == {t \in ts : t.id # timer}

(***************************************************************************)
(* String(number): Number::toString of ECMAScript, radix 10.                *)
(***************************************************************************)
Algarismos == <<"0", "1", "2", "3", "4", "5", "6", "7", "8", "9">>

\* the four decimal digits of a limb
DigitosDoLimb(t) ==
    <<Algarismos[(t \div 1000) + 1], Algarismos[((t \div 100) % 10) + 1],
      Algarismos[((t \div 10) % 10) + 1], Algarismos[(t % 10) + 1]>>

\* the digits of a significand, the most significant first
RECURSIVE DigitosDe(_)
DigitosDe(m) ==
    IF m = <<>> THEN <<>>
    ELSE DigitosDoLimb(m[Len(m)]) \o DigitosDe(SubSeq(m, 1, Len(m) - 1))

RECURSIVE SemZerosFinais(_)
SemZerosFinais(s) ==
    IF s # <<>> /\ s[Len(s)] = "0" THEN SemZerosFinais(SubSeq(s, 1, Len(s) - 1))
    ELSE s

Zeros(n) == [i \in 1..n |-> "0"]

\* the decimal digits of a natural number
RECURSIVE TextoDoNatural(_)
TextoDoNatural(n) ==
    IF n < 10 THEN <<Algarismos[n + 1]>>
    ELSE TextoDoNatural(n \div 10) \o <<Algarismos[(n % 10) + 1]>>

\* the digits s (k of them) and the exponent n: the value is 0.s * 10^n
TextoDoPositivo(s, n) ==
    LET k == Len(s)
    IN  IF k <= n /\ n <= 21 THEN s \o Zeros(n - k)
        ELSE IF 0 < n /\ n <= 21
        THEN SubSeq(s, 1, n) \o <<".">> \o SubSeq(s, n + 1, k)
        ELSE IF -6 < n /\ n <= 0 THEN <<"0", ".">> \o Zeros(-n) \o s
        ELSE LET sinal == IF n - 1 < 0 THEN <<"-">> ELSE <<"+">>
                 expo  == TextoDoNatural(IF n - 1 < 0 THEN 1 - n ELSE n - 1)
             IN  IF k = 1 THEN s \o <<"e">> \o sinal \o expo
                 ELSE <<s[1], ".">> \o SubSeq(s, 2, k) \o <<"e">> \o sinal \o expo

\* String(value) of a number
String(a) ==
    IF IsNaN(a) THEN <<"N", "a", "N">>
    ELSE IF IsZero(a) THEN <<"0">>
    ELSE IF IsInf(a)
    THEN (IF a.neg THEN <<"-">> ELSE <<>>)
            \o <<"I", "n", "f", "i", "n", "i", "t", "y">>
    ELSE (IF a.neg THEN <<"-">> ELSE <<>>)
            \o TextoDoPositivo(SemZerosFinais(DigitosDe(a.m)), a.e + Precision)

\* a slip: an entry is served at the instant it expires
VigenteNoLimite(entry, agora) == entry.expiresAt >= agora

\* cached.expiresAt > Date.now()
Vigente(entry, agora) == entry.expiresAt > agora

\* the texts typed into the search box
ConsultasDigitadas ==
    { <<"a">>, <<" ", "A", "B">>, <<"a", "b", "c">> }

\* what searchAssetsYahoo may answer to a query: nothing found, or one asset
RespostasDe(q) == { <<>>, <<[symbol |-> toUpperCase(q)]>> }

\* what getAssetYahoo may answer for a symbol
DetalhesDe(symbol) == { [symbol |-> symbol, price |-> c] : c \in {10, 11} }

\* useState(...) and useRef(null) of the hook; execucoes counts the entries
\* into runAutocomplete and alteradaEm is the time of the last onChangeQuery
hookInicial ==
    [query |-> <<>>, results |-> <<>>, selectedAsset |-> <<>>,
     loadingAutocomplete |-> FALSE, errorAutocomplete |-> Nenhum,
     loadingLookup |-> FALSE, errorLookup |-> Nenhum,
     autocompleteController |-> 0, lookupController |-> 0, debounceTimer |-> 0,
     montado |-> TRUE, execucoes |-> 0, alteradaEm |-> 0]

cachesIniciais ==
    [autocomplete |-> <<>>, lookup |-> <<>>,
     market |-> [data |-> <<>>, nulo |-> TRUE, fetchedAt |-> 0]]

\* no request
SemPedido ==
    [id |-> 0, tipo |-> "", chave |-> <<>>, abortado |-> FALSE, execucao |-> 0,
     origem |-> ""]

\* how searchAssetsYahoo(query, signal) and getAssetYahoo(symbol, signal) may
\* end: the request is answered or fails, and once its signal is aborted it
\* is rejected with an AbortError
DesfechosDoServico(pedido) ==
    IF pedido.abortado THEN {"AbortError"} ELSE {"resposta", "erro"}

NoHook == componente = "useAssetSearch" /\ hook.montado

ForaDaBusca ==
    UNCHANGED <<varsNucleo, varsLaco, error, rota, estado, chamadas, edicoes,
                varsVolta>>

\* what a step leaves in ultimo: what it did, and the caches and the form
\* before it
\* (chave: the query or the symbol; servido: a cached value was returned;
\* pediu: a request was issued; pedido: the request that was settled; valor:
\* the value of its response; aplicado: the item applied to the form, if any)
Feito(acao, chave, servido, pediu, pedido, valor) ==
    [acao |-> acao, chave |-> chave, servido |-> servido, pediu |-> pediu,
     pedido |-> pedido, valor |-> valor, aplicado |-> <<>>,
     cachesAntes |-> caches, formAntes |-> form, agora |-> relogio]

\* onChangeQuery(text)
onChangeQuery(text) ==
    /\ NoHook
    /\ eventos < MaxEventos
    /\ eventos' = eventos + 1
    /\ LET normalized == normalizeQuery(text)
           limpos     == clearTimeout(temporizadores, hook.debounceTimer)
       IN  IF Len(normalized) < 2
           THEN /\ hook' = [hook EXCEPT !.query = text, !.errorAutocomplete = Nenhum,
                                        !.results = <<>>, !.alteradaEm = relogio]
                /\ temporizadores' = limpos
                /\ UNCHANGED ids
           ELSE /\ hook' = [hook EXCEPT !.query = text, !.errorAutocomplete = Nenhum,
                                        !.debounceTimer = ids + 1,
                                        !.alteradaEm = relogio]
                /\ temporizadores' =
                      limpos \cup {[id |-> ids + 1, vence |-> relogio + DEBOUNCE_MS,
                                    consulta |-> normalized]}
                /\ ids' = ids + 1
    /\ ultimo' = Feito("onChangeQuery", normalizeQuery(text), FALSE, FALSE,
                       SemPedido, <<>>)
    /\ UNCHANGED <<componente, relogio, pedidos, caches, pesquisa, avancos, form>>
    /\ ForaDaBusca

\* the debounce timer fires: runAutocomplete(normalizedQuery)
runAutocomplete(timer) ==
    /\ componente = "useAssetSearch"
    /\ timer \in temporizadores
    /\ timer.vence <= relogio
    /\ temporizadores' = temporizadores \ {timer}
    /\ LET q      == timer.consulta
           cache  == caches.autocomplete
           cached == q \in DOMAIN cache /\ Vigente(cache[q], relogio)
       IN  IF cached
           THEN /\ hook' = [hook EXCEPT !.results = cache[q].value,
                                        !.execucoes = @ + 1]
                /\ UNCHANGED <<pedidos, ids>>
                /\ ultimo' = Feito("runAutocomplete", q, TRUE, FALSE,
                                   SemPedido, <<>>)
           ELSE /\ hook' = [hook EXCEPT !.autocompleteController = ids + 1,
                                        !.loadingAutocomplete = TRUE,
                                        !.errorAutocomplete = Nenhum,
                                        !.execucoes = @ + 1]
                /\ pedidos' =
                      Abortar(pedidos, hook.autocompleteController)
                         \cup {[id |-> ids + 1, tipo |-> "autocomplete", chave |-> q,
                                abortado |-> FALSE, execucao |-> hook.execucoes + 1,
                                origem |-> "hook"]}
                /\ ids' = ids + 1
                /\ ultimo' = Feito("runAutocomplete", q, FALSE, TRUE,
                                   SemPedido, <<>>)
    /\ UNCHANGED <<componente, relogio, caches, pesquisa, eventos, avancos, form>>
    /\ ForaDaBusca

\* onSelectResult(item)
onSelectResult(item) ==
    /\ NoHook
    /\ eventos < MaxEventos
    /\ eventos' = eventos + 1
    /\ LET cache  == caches.lookup
           cached == item.symbol \in DOMAIN cache
                        /\ Vigente(cache[item.symbol], relogio)
       IN  IF cached
           THEN /\ hook' = [hook EXCEPT !.errorLookup = Nenhum,
                                        !.selectedAsset = <<cache[item.symbol].value>>]
                /\ UNCHANGED <<pedidos, ids>>
                /\ ultimo' = Feito("onSelectResult", item.symbol, TRUE, FALSE,
                                   SemPedido, <<>>)
           ELSE /\ hook' = [hook EXCEPT !.errorLookup = Nenhum,
                                        !.lookupController = ids + 1,
                                        !.loadingLookup = TRUE]
                /\ pedidos' =
                      Abortar(pedidos, hook.lookupController)
                         \cup {[id |-> ids + 1, tipo |-> "lookup",
                                chave |-> item.symbol, abortado |-> FALSE,
                                execucao |-> 0, origem |-> "hook"]}
                /\ ids' = ids + 1
                /\ ultimo' = Feito("onSelectResult", item.symbol, FALSE, TRUE,
                                   SemPedido, <<>>)
    /\ UNCHANGED <<componente, relogio, temporizadores, caches, pesquisa, avancos,
                   form>>
    /\ ForaDaBusca

\* await searchAssetsYahoo(...) returns res
AutocompleteRespondido(pedido, res) ==
    /\ componente = "useAssetSearch"
    /\ pedido \in pedidos
    /\ pedido.tipo = "autocomplete"
    /\ "resposta" \in DesfechosDoServico(pedido)
    /\ pedidos' = pedidos \ {pedido}
    /\ hook' = [hook EXCEPT
                   !.results = res,
                   !.errorAutocomplete =
                       IF Len(res) = 0 THEN "Nenhum resultado." ELSE @,
                   !.loadingAutocomplete = FALSE]
    /\ caches' = [caches EXCEPT
                     !.autocomplete =
                         MapSet(@, pedido.chave,
                                [value |-> res,
                                 expiresAt |-> relogio + AUTOCOMPLETE_TTL_MS])]
    /\ ultimo' = Feito("resposta", pedido.chave, FALSE, FALSE, pedido, res)
    /\ UNCHANGED <<componente, relogio, temporizadores, pesquisa, eventos, avancos,
                   ids, form>>
    /\ ForaDaBusca

\* await getAssetYahoo(...) returns detail
LookupRespondido(pedido, detail) ==
    /\ componente = "useAssetSearch"
    /\ pedido \in pedidos
    /\ pedido.tipo = "lookup"
    /\ "resposta" \in DesfechosDoServico(pedido)
    /\ pedidos' = pedidos \ {pedido}
    /\ hook' = [hook EXCEPT !.selectedAsset = <<detail>>, !.loadingLookup = FALSE]
    /\ caches' = [caches EXCEPT
                     !.lookup =
                         MapSet(@, pedido.chave,
                                [value |-> detail,
                                 expiresAt |-> relogio + LOOKUP_TTL_MS])]
    /\ ultimo' = Feito("resposta", pedido.chave, FALSE, FALSE, pedido, detail)
    /\ UNCHANGED <<componente, relogio, temporizadores, pesquisa, eventos, avancos,
                   ids, form>>
    /\ ForaDaBusca

\* the awaited call throws: an AbortError when the signal was aborted (the
\* handler returns), any other error otherwise (the error message is set);
\* finally the loading flag is reset
PedidoDoHookFalhou(pedido) ==
    /\ componente = "useAssetSearch"
    /\ pedido \in pedidos
    /\ pedidos' = pedidos \ {pedido}
    /\ \E fim \in DesfechosDoServico(pedido) \ {"resposta"} :
          /\ hook' =
                IF pedido.tipo = "autocomplete"
                THEN [hook EXCEPT
                        !.errorAutocomplete =
                            IF fim = "AbortError" THEN @
                            ELSE "Erro ao buscar ativos.",
                        !.loadingAutocomplete = FALSE]
                ELSE [hook EXCEPT
                        !.errorLookup =
                            IF fim = "AbortError" THEN @
                            ELSE "Erro ao carregar ativo.",
                        !.loadingLookup = FALSE]
          /\ ultimo' = Feito(IF fim = "AbortError" THEN "aborto" ELSE "falha",
                             pedido.chave, FALSE, FALSE, pedido, <<>>)
    /\ UNCHANGED <<componente, relogio, temporizadores, caches, pesquisa, eventos,
                   avancos, ids, form>>
    /\ ForaDaBusca

\* the cleanup of the hook's effect, when the component is unmounted
DesmontarHook ==
    /\ NoHook
    /\ hook' = [hook EXCEPT !.montado = FALSE]
    /\ pedidos' = Abortar(Abortar(pedidos, hook.autocompleteController),
                          hook.lookupController)
    /\ temporizadores' = clearTimeout(temporizadores, hook.debounceTimer)
    /\ ultimo' = Feito("desmontar", <<>>, FALSE, FALSE, SemPedido, <<>>)
    /\ UNCHANGED <<componente, relogio, caches, pesquisa, eventos, avancos, ids,
                   form>>
    /\ ForaDaBusca

\* time passes
Avancar(ms) ==
    /\ avancos < MaxAvancos
    /\ avancos' = avancos + 1
    /\ relogio' = relogio + ms
    /\ ultimo' = Feito("relogio", <<>>, FALSE, FALSE, SemPedido, <<>>)
    /\ UNCHANGED <<componente, temporizadores, pedidos, caches, hook, pesquisa,
                   eventos, ids, form>>
    /\ ForaDaBusca

(***************************************************************************)
(* The search of FormPage.  An optional property is <<>> when it is         *)
(* undefined and <<v>> when it holds v.                                     *)
(***************************************************************************)
Indefinido == <<>>
Definido(v) == v # <<>>

\* normalizeTicker(raw)
normalizeTicker(raw) ==
    LET ticker == toUpperCase(Trim(raw))
    IN  IF ticker = <<>> THEN <<>>
        ELSE IF includes(ticker, <<".">>) THEN ticker
        ELSE ticker \o <<".", "S", "A">>

\* normalizeText(raw)
normalizeText(raw) == UmEspaco(Trim(toLowerCase(raw)))

\* the rows of marketdata.json in the model
DadosDeMercado ==
    << [symbol |-> <<<<"A", "B", ".", "S", "A">>>>, name |-> <<<<"A", "b">>>>,
        price |-> <<Call("Number", <<<<"1", "0", ".", "5", "0">>>>)>>,
        vol_annual |-> <<Call("Number", <<<<"0", ".", "3">>>>)>>],
       [symbol |-> <<<<"a", "b", "c", ".", "S", "A">>>>, name |-> Indefinido,
        price |-> <<Call("Number", <<<<"7">>>>)>>, vol_annual |-> Indefinido],
       [symbol |-> Indefinido, name |-> <<<<"A", "B", "C", " ", "T">>>>,
        price |-> Indefinido,
        vol_annual |-> <<Call("Number", <<<<"2", "5", "e", "-", "2">>>>)>>] >>

\* what the fetch of marketdata.json may answer: the rows, a document whose
\* data is not an array, or a status that is not ok
RespostasDoMercado ==
    { [ok |-> TRUE, data |-> <<DadosDeMercado>>],
      [ok |-> TRUE, data |-> Indefinido],
      [ok |-> FALSE, data |-> Indefinido] }

\* how fetch(url, { signal }) and resp.json() may end: a document arrives, or
\* the fetch fails, the status is not ok or the document is not JSON; a
\* fetch whose signal is aborted is rejected with an AbortError
DesfechosDoFetch(pedido) ==
    IF pedido.abortado THEN {"AbortError"} ELSE {"resposta", "erro"}

\* Array.isArray(json?.data) ? json.data : []
DadosDe(resp) == IF Definido(resp.data) THEN resp.data[1] ELSE <<>>

\* marketDataCache.data && Date.now() - marketDataCache.fetchedAt < MARKET_CACHE_TTL_MS
MercadoVigente(cache, agora) ==
    ~cache.nulo /\ agora - cache.fetchedAt < MARKET_CACHE_TTL_MS

\* getMatches(data, rawTerm)
getMatches(data, rawTerm) ==
    LET term           == Trim(rawTerm)
        exactSymbol    == normalizeTicker(term)
        partialSymbol  == toUpperCase(term)
        normalizedName == normalizeText(term)
        Casa(item) ==
            LET symbol == IF Definido(item.symbol) THEN toUpperCase(item.symbol[1])
                          ELSE <<>>
                name   == IF Definido(item.name) THEN item.name[1] ELSE <<>>
            IN  \/ symbol # <<>> /\ symbol = exactSymbol
                \/ Len(partialSymbol) >= 2 /\ includes(symbol, partialSymbol)
                \/ Len(normalizedName) >= 2
                      /\ includes(normalizeText(name), normalizedName)
    IN  IF term = <<>> THEN <<>> ELSE SelectSeq(data, Casa)

\* toSearchItem(item, fallbackSymbol)
toSearchItem(item, fallbackSymbol) ==
    LET symbol == IF Definido(item.symbol) THEN item.symbol[1] ELSE fallbackSymbol
    IN  [symbol |-> symbol,
         name |-> IF Definido(item.name) THEN item.name[1] ELSE symbol,
         exchange |-> "Dados GitHub",
         price |-> item.price,
         volAnnual |-> item.vol_annual]

\* matches.map((item) => toSearchItem(item, fallbackSymbol))
ItensDe(matches, fallbackSymbol) ==
    [i \in 1..Len(matches) |-> toSearchItem(matches[i], fallbackSymbol)]

\* a slip: the volatility is written into S as well
applySearchItemToFormTrocado(prev, item) ==
    [prev EXCEPT
        !.S = IF Definido(item.price) THEN String(item.price[1])
              ELSE IF Definido(item.volAnnual) THEN String(item.volAnnual[1])
              ELSE @,
        !.sigma = IF Definido(item.volAnnual) THEN String(item.volAnnual[1]) ELSE @]

\* applySearchItemToForm(item), as the update of the form prev
applySearchItemToForm(prev, item) ==
    [prev EXCEPT
        !.S = IF Definido(item.price) THEN String(item.price[1]) ELSE @,
        !.sigma = IF Definido(item.volAnnual) THEN String(item.volAnnual[1]) ELSE @]

\* the texts typed into the search box of the page
TermosDigitados ==
    { <<"a">>, <<"a", "b">>, <<" ", "A", "B", "C">> }

\* useState(...) and useRef(null) of the search of FormPage; alteradaEm is
\* the time of the last change of searchTerm
pesquisaInicial ==
    [searchTerm |-> <<>>, searchResults |-> <<>>, pinnedResults |-> Indefinido,
     selectedResultIndex |-> <<>>, searchMessage |-> Nenhum,
     searchLoading |-> FALSE, autocompleteController |-> 0, debounceTimer |-> 0,
     montado |-> TRUE, alteradaEm |-> 0]

NaPagina == componente = "FormPage" /\ pesquisa.montado

\* pinnedResults ?? searchResults
displayedResults(p) ==
    IF Definido(p.pinnedResults) THEN p.pinnedResults[1] ELSE p.searchResults

\* the then-branch of the timer's callback, with the data loaded
AutocompleteComDados(p, data, term) ==
    LET matches == getMatches(data, term)
    IN  [p EXCEPT
           !.searchResults = ItensDe(matches, normalizeTicker(term)),
           !.searchMessage = IF Len(matches) = 0 THEN "Nenhum resultado." ELSE @,
           !.searchLoading = FALSE]

\* matches.find(...) ?? (matches.length === 1 ? matches[0] : null), as an
\* optional row
preferredMatch(matches, normalizedSymbol) ==
    LET Exato(item) == /\ Definido(item.symbol)
                       /\ toUpperCase(item.symbol[1]) = normalizedSymbol
        exatos == SelectSeq(matches, Exato)
    IN  IF exatos # <<>> THEN <<exatos[1]>>
        ELSE IF Len(matches) = 1 THEN <<matches[1]>>
        ELSE Indefinido

\* handleSearch after await loadMarketData(): the state of the search
BuscaComDados(p, data, rawTerm) ==
    LET matches == getMatches(data, rawTerm)
    IN  IF Len(matches) = 0
        THEN [p EXCEPT !.searchMessage = "Ativo nao encontrado.",
                       !.searchLoading = FALSE]
        ELSE [p EXCEPT !.searchResults = ItensDe(matches, normalizeTicker(rawTerm)),
                       !.searchLoading = FALSE]

\* handleSearch after await loadMarketData(): the item it applies to the
\* form, if any
ItemPreferido(data, rawTerm) ==
    LET normalizedSymbol == normalizeTicker(rawTerm)
        preferido == preferredMatch(getMatches(data, rawTerm), normalizedSymbol)
    IN  IF Definido(preferido)
        THEN <<toSearchItem(preferido[1], normalizedSymbol)>>
        ELSE Indefinido

\* handleSearch after await loadMarketData(): the form
FormComDados(prev, data, rawTerm) ==
    LET preferido == ItemPreferido(data, rawTerm)
    IN  IF Definido(preferido) THEN applySearchItemToForm(prev, preferido[1])
        ELSE prev

\* the search input's onChange and, when searchTerm changed, the effect
DigitarTermo(text) ==
    /\ NaPagina
    /\ eventos < MaxEventos
    /\ eventos' = eventos + 1
    /\ LET term   == Trim(text)
           mudou  == text # pesquisa.searchTerm
           limpos == clearTimeout(temporizadores, pesquisa.debounceTimer)
           p      == [pesquisa EXCEPT !.pinnedResults = Indefinido,
                                      !.selectedResultIndex = <<>>,
                                      !.searchTerm = text]
       IN  IF ~mudou
           THEN /\ pesquisa' = p
                /\ UNCHANGED <<temporizadores, pedidos, ids>>
           ELSE IF Len(term) < AUTOCOMPLETE_MIN_CHARS
           THEN /\ pesquisa' = [p EXCEPT !.searchLoading = FALSE,
                                         !.searchResults = <<>>,
                                         !.searchMessage = Nenhum,
                                         !.alteradaEm = relogio]
                /\ temporizadores' = limpos
                /\ pedidos' = Abortar(pedidos, pesquisa.autocompleteController)
                /\ UNCHANGED ids
           ELSE /\ pesquisa' = [p EXCEPT !.debounceTimer = ids + 1,
                                         !.alteradaEm = relogio]
                /\ temporizadores' =
                      limpos \cup {[id |-> ids + 1,
                                    vence |-> relogio + AUTOCOMPLETE_DEBOUNCE_MS,
                                    consulta |-> term]}
                /\ ids' = ids + 1
                /\ UNCHANGED pedidos
    /\ ultimo' = Feito(IF text # pesquisa.searchTerm THEN "onChange"
                       ELSE "onChange sem efeito",
                       Trim(text), FALSE, FALSE, SemPedido, <<>>)
    /\ UNCHANGED <<componente, relogio, caches, hook, avancos, form>>
    /\ ForaDaBusca

\* the debounce timer of the page fires: the callback of setTimeout
TimerDaPagina(timer) ==
    /\ componente = "FormPage"
    /\ timer \in temporizadores
    /\ timer.vence <= relogio
    /\ temporizadores' = temporizadores \ {timer}
    /\ LET term   == timer.consulta
           p      == [pesquisa EXCEPT !.autocompleteController = ids + 1,
                                      !.searchLoading = TRUE,
                                      !.searchMessage = Nenhum]
           cached == MercadoVigente(caches.market, relogio)
       IN  /\ ids' = ids + 1
           /\ IF cached
              THEN /\ pesquisa' = AutocompleteComDados(p, caches.market.data, term)
                   /\ pedidos' = Abortar(pedidos, pesquisa.autocompleteController)
              ELSE /\ pesquisa' = p
                   /\ pedidos' =
                         Abortar(pedidos, pesquisa.autocompleteController)
                            \cup {[id |-> ids + 1, tipo |-> "market", chave |-> term,
                                   abortado |-> FALSE, execucao |-> 0,
                                   origem |-> "autocomplete"]}
           /\ ultimo' = Feito("autocomplete", term, cached, ~cached, SemPedido, <<>>)
    /\ UNCHANGED <<componente, relogio, caches, hook, eventos, avancos, form>>
    /\ ForaDaBusca

\* handleSearch, up to await loadMarketData() or, with the data cached, to
\* its end
handleSearch ==
    /\ NaPagina
    /\ ~pesquisa.searchLoading
    /\ eventos < MaxEventos
    /\ eventos' = eventos + 1
    /\ LET rawTerm == Trim(pesquisa.searchTerm)
           p       == [pesquisa EXCEPT !.searchResults = <<>>,
                                       !.pinnedResults = Indefinido,
                                       !.selectedResultIndex = <<>>]
           cached  == MercadoVigente(caches.market, relogio)
       IN  IF rawTerm = <<>>
           THEN /\ pesquisa' = [p EXCEPT !.searchMessage = "Informe um ticker ou nome."]
                /\ UNCHANGED <<pedidos, ids, form>>
                /\ ultimo' = Feito("handleSearch", rawTerm, FALSE, FALSE,
                                   SemPedido, <<>>)
           ELSE IF cached
           THEN /\ pesquisa' = BuscaComDados([p EXCEPT !.searchMessage = Nenhum],
                                             caches.market.data, rawTerm)
                /\ form' = FormComDados(form, caches.market.data, rawTerm)
                /\ UNCHANGED <<pedidos, ids>>
                /\ ultimo' = [Feito("handleSearch", rawTerm, TRUE, FALSE,
                                    SemPedido, <<>>)
                                 EXCEPT !.aplicado =
                                     ItemPreferido(caches.market.data, rawTerm)]
           ELSE /\ pesquisa' = [p EXCEPT !.searchMessage = Nenhum,
                                         !.searchLoading = TRUE]
                /\ pedidos' =
                      pedidos \cup {[id |-> ids + 1, tipo |-> "market",
                                     chave |-> rawTerm, abortado |-> FALSE,
                                     execucao |-> 0, origem |-> "handleSearch"]}
                /\ ids' = ids + 1
                /\ UNCHANGED form
                /\ ultimo' = Feito("handleSearch", rawTerm, FALSE, TRUE,
                                   SemPedido, <<>>)
    /\ UNCHANGED <<componente, relogio, temporizadores, caches, hook, avancos>>
    /\ ForaDaBusca

\* the fetch of loadMarketData is answered with an ok status and a document:
\* the cache is written and the caller goes on (a component that was
\* unmounted keeps its state)
MercadoRespondido(pedido, resp) ==
    /\ componente = "FormPage"
    /\ pedido \in pedidos
    /\ pedido.tipo = "market"
    /\ "resposta" \in DesfechosDoFetch(pedido)
    /\ resp.ok
    /\ pedidos' = pedidos \ {pedido}
    /\ caches' = [caches EXCEPT
                     !.market = [data |-> DadosDe(resp), nulo |-> FALSE,
                                 fetchedAt |-> relogio]]
    /\ IF ~pesquisa.montado
       THEN UNCHANGED <<pesquisa, form>>
       ELSE IF pedido.origem = "autocomplete"
       THEN /\ pesquisa' = AutocompleteComDados(pesquisa, DadosDe(resp), pedido.chave)
            /\ UNCHANGED form
       ELSE /\ pesquisa' = BuscaComDados(pesquisa, DadosDe(resp), pedido.chave)
            /\ form' = FormComDados(form, DadosDe(resp), pedido.chave)
    /\ ultimo' = [Feito("resposta", pedido.chave, FALSE, FALSE, pedido, resp)
                     EXCEPT !.aplicado =
                         IF pesquisa.montado /\ pedido.origem = "handleSearch"
                         THEN ItemPreferido(DadosDe(resp), pedido.chave)
                         ELSE Indefinido]
    /\ UNCHANGED <<componente, relogio, temporizadores, hook, eventos, avancos, ids>>
    /\ ForaDaBusca

\* loadMarketData throws: the fetch is rejected (with an AbortError once the
\* signal is aborted), the status is not ok, or the document is not JSON
MercadoFalhou(pedido) ==
    /\ componente = "FormPage"
    /\ pedido \in pedidos
    /\ pedido.tipo = "market"
    /\ pedidos' = pedidos \ {pedido}
    /\ \E fim \in DesfechosDoFetch(pedido) \ {"resposta"} :
          /\ pesquisa' =
                IF ~pesquisa.montado THEN pesquisa
                ELSE [pesquisa EXCEPT
                        !.searchMessage =
                            IF fim = "AbortError" /\ pedido.origem = "autocomplete"
                            THEN @ ELSE "Erro ao consultar dados.",
                        !.searchLoading = FALSE]
          /\ ultimo' = Feito(IF fim = "AbortError" THEN "aborto" ELSE "falha",
                             pedido.chave, FALSE, FALSE, pedido, <<>>)
    /\ UNCHANGED <<componente, relogio, temporizadores, caches, hook, eventos,
                   avancos, ids, form>>
    /\ ForaDaBusca

\* the onChange of the select of the results: the option of index i is chosen
SelecionarResultado(i) ==
    /\ NaPagina
    /\ eventos < MaxEventos
    /\ i \in 0..(Len(displayedResults(pesquisa)) - 1)
    /\ eventos' = eventos + 1
    /\ LET value == String(NumOfInt(i))
           index == Call("Number", <<value>>)
           lista == displayedResults(pesquisa)
           item  == lista[CHOOSE j \in 1..Len(lista) : NumOfInt(j - 1) = index]
       IN  /\ pesquisa' = [pesquisa EXCEPT !.selectedResultIndex = value,
                                           !.pinnedResults = <<lista>>]
           /\ form' = applySearchItemToForm(form, item)
           /\ ultimo' = [Feito("select", value, FALSE, FALSE, SemPedido, <<>>)
                            EXCEPT !.aplicado = <<item>>]
    /\ UNCHANGED <<componente, relogio, temporizadores, pedidos, caches, hook,
                   avancos, ids>>
    /\ ForaDaBusca

\* the cleanup of the page's effect, when the page is unmounted
DesmontarPagina ==
    /\ NaPagina
    /\ pesquisa' = [pesquisa EXCEPT !.montado = FALSE]
    /\ pedidos' = Abortar(pedidos, pesquisa.autocompleteController)
    /\ temporizadores' = clearTimeout(temporizadores, pesquisa.debounceTimer)
    /\ ultimo' = Feito("desmontar", <<>>, FALSE, FALSE, SemPedido, <<>>)
    /\ UNCHANGED <<componente, relogio, caches, hook, eventos, avancos, ids, form>>
    /\ ForaDaBusca

InitBusca ==
    /\ pc = {}
    /\ tz = 0
    /\ dataAtual = InvalidDate
    /\ dataVencimento = InvalidDate
    /\ diasUteis = 0
    /\ anos = Nenhum
    /\ entrada = Nenhum
    /\ classico = Nenhum
    /\ modificado = Nenhum
    /\ ponto = Nenhum
    /\ cdf = Nenhum
    /\ SemLaco
    /\ SemVolta
    /\ form = initialState
    /\ error = Nenhum
    /\ rota = "/"
    /\ estado = Nenhum
    /\ chamadas = {}
    /\ edicoes = 0
    /\ componente \in {"useAssetSearch", "FormPage"}
    /\ relogio = 0
    /\ temporizadores = {}
    /\ pedidos = {}
    /\ caches = cachesIniciais
    /\ hook = hookInicial
    /\ pesquisa = pesquisaInicial
    /\ ultimo = Feito("montar", <<>>, FALSE, FALSE, SemPedido, <<>>)
    /\ eventos = 0
    /\ avancos = 0
    /\ ids = 0

NextBusca ==
    \/ \E text \in ConsultasDigitadas : onChangeQuery(text)
    \/ \E timer \in temporizadores : runAutocomplete(timer)
    \/ \E item \in {hook.results[i] : i \in 1..Len(hook.results)} :
          onSelectResult(item)
    \/ \E pedido \in pedidos : \E res \in RespostasDe(pedido.chave) :
          AutocompleteRespondido(pedido, res)
    \/ \E pedido \in pedidos : \E detail \in DetalhesDe(pedido.chave) :
          LookupRespondido(pedido, detail)
    \/ \E pedido \in pedidos : PedidoDoHookFalhou(pedido)
    \/ DesmontarHook
    \/ \E text \in TermosDigitados : DigitarTermo(text)
    \/ \E timer \in temporizadores : TimerDaPagina(timer)
    \/ handleSearch
    \/ \E pedido \in pedidos : \E resp \in RespostasDoMercado :
          MercadoRespondido(pedido, resp)
    \/ \E pedido \in pedidos : MercadoFalhou(pedido)
    \/ \E i \in 0..2 : SelecionarResultado(i)
    \/ DesmontarPagina
    \/ \E ms \in Avancos : Avancar(ms)

SpecBusca == InitBusca /\ [][NextBusca]_vars

(***************************************************************************)
(* Claims about the search.                                                 *)
(***************************************************************************)
\* C14: in useAssetSearch, once runAutocomplete has been entered for a newer
\* query, from the cache or from the network, the response to an older
\* request never sets results: a response that sets results belongs to the
\* latest run of runAutocomplete.
C14_RespostaDaUltimaConsulta ==
    (componente = "useAssetSearch" /\ ultimo.acao = "resposta"
        /\ ultimo.pedido.tipo = "autocomplete")
    => ultimo.pedido.execucao = hook.execucoes

PassoComCache ==
    \/ ultimo.acao \in {"runAutocomplete", "onSelectResult", "autocomplete"}
    \/ ultimo.acao = "handleSearch" /\ ultimo.chave # <<>>

\* the entry the step looked up existed and the time was before its expiry
EntradaVigente ==
    LET antes == ultimo.cachesAntes
    IN  CASE ultimo.acao = "runAutocomplete" ->
                /\ ultimo.chave \in DOMAIN antes.autocomplete
                /\ ultimo.agora < antes.autocomplete[ultimo.chave].expiresAt
          [] ultimo.acao = "onSelectResult" ->
                /\ ultimo.chave \in DOMAIN antes.lookup
                /\ ultimo.agora < antes.lookup[ultimo.chave].expiresAt
          [] OTHER ->
                /\ ~antes.market.nulo
                /\ ultimo.agora < antes.market.fetchedAt + 5 * 60 * 1000

\* C15: runAutocomplete, onSelectResult and loadMarketData return the cached
\* value, without a request, exactly when an entry for the key exists and the
\* time is before its expiry, which is 60 s after the response for the
\* autocomplete and 5 min after it for the lookup and the market data; an
\* expired entry is never served and leads to a new request.
C15_CacheSoVigente ==
    /\ PassoComCache =>
          /\ ultimo.servido <=> EntradaVigente
          /\ ultimo.pediu <=> ~EntradaVigente
    /\ (ultimo.acao = "resposta" /\ ultimo.pedido.tipo = "autocomplete") =>
          caches.autocomplete[ultimo.chave].expiresAt = ultimo.agora + 60 * 1000
    /\ (ultimo.acao = "resposta" /\ ultimo.pedido.tipo = "lookup") =>
          caches.lookup[ultimo.chave].expiresAt = ultimo.agora + 5 * 60 * 1000

\* runAutocomplete finds an entry at the very instant of its expiry and
\* issues a request
C15_ExpiradaNoLimite ==
    /\ ultimo.acao = "runAutocomplete"
    /\ ultimo.chave \in DOMAIN ultimo.cachesAntes.autocomplete
    /\ ultimo.cachesAntes.autocomplete[ultimo.chave].expiresAt = ultimo.agora
    /\ ultimo.pediu
    /\ ~ultimo.servido

\* the caches after the response of ultimo was written into cachesAntes
CachesComAResposta ==
    LET antes == ultimo.cachesAntes
        p     == ultimo.pedido
    IN  CASE p.tipo = "autocomplete" ->
                /\ DOMAIN caches.autocomplete
                      = DOMAIN antes.autocomplete \cup {p.chave}
                /\ \A k \in DOMAIN antes.autocomplete \ {p.chave} :
                      caches.autocomplete[k] = antes.autocomplete[k]
                /\ caches.autocomplete[p.chave]
                      = [value |-> ultimo.valor,
                         expiresAt |-> ultimo.agora + 60 * 1000]
                /\ caches.lookup = antes.lookup
                /\ caches.market = antes.market
          [] p.tipo = "lookup" ->
                /\ DOMAIN caches.lookup = DOMAIN antes.lookup \cup {p.chave}
                /\ \A k \in DOMAIN antes.lookup \ {p.chave} :
                      caches.lookup[k] = antes.lookup[k]
                /\ caches.lookup[p.chave]
                      = [value |-> ultimo.valor,
                         expiresAt |-> ultimo.agora + 5 * 60 * 1000]
                /\ caches.autocomplete = antes.autocomplete
                /\ caches.market = antes.market
          [] OTHER ->
                /\ caches.market
                      = [data |-> IF ultimo.valor.data = <<>> THEN <<>>
                                  ELSE ultimo.valor.data[1],
                         nulo |-> FALSE, fetchedAt |-> ultimo.agora]
                /\ caches.autocomplete = antes.autocomplete
                /\ caches.lookup = antes.lookup

\* C16: a request that fails or is aborted leaves every cache unchanged; the
\* caches are written only by a successful response, with the value of the
\* response and the expiry or the fetch time taken when it completes.
C16_SoRespostaEscreve ==
    IF ultimo.acao = "resposta" THEN CachesComAResposta
    ELSE caches = ultimo.cachesAntes

\* a request failed while a cache held an entry, and the entry stayed
C16_FalhaComEntrada ==
    /\ ultimo.acao \in {"falha", "aborto"}
    /\ \/ DOMAIN caches.autocomplete # {}
       \/ DOMAIN caches.lookup # {}
       \/ ~caches.market.nulo

\* the query of the component and the time of its last change
ConsultaAtual ==
    IF componente = "useAssetSearch" THEN normalizeQuery(hook.query)
    ELSE Trim(pesquisa.searchTerm)

AlteradaEm ==
    IF componente = "useAssetSearch" THEN hook.alteradaEm ELSE pesquisa.alteradaEm

ResultadosDaBusca ==
    IF componente = "useAssetSearch" THEN hook.results ELSE pesquisa.searchResults

\* C17: every change of the query cancels the pending timer; a query shorter
\* than 2 characters, once trimmed, clears the results and schedules nothing;
\* otherwise one timer is scheduled 350 ms ahead, and the autocomplete of a
\* query starts only when the query has stayed unchanged for 350 ms; at most
\* one timer is pending at any time.
C17_SoConsultaAssentada ==
    /\ Cardinality(temporizadores) <= 1
    /\ ultimo.acao \in {"onChangeQuery", "onChange"} =>
          IF Len(ultimo.chave) < 2
          THEN temporizadores = {} /\ ResultadosDaBusca = <<>>
          ELSE \E t \in temporizadores :
                  /\ temporizadores = {t}
                  /\ t.vence = ultimo.agora + 350
                  /\ t.consulta = ultimo.chave
    /\ ultimo.acao \in {"runAutocomplete", "autocomplete"} =>
          /\ Len(ultimo.chave) >= 2
          /\ ultimo.chave = ConsultaAtual
          /\ ultimo.agora - AlteradaEm >= 350
          /\ temporizadores = {}

\* the request of a query is issued when the query has been still for 350 ms
\* after an earlier, different query was typed and replaced
C17_PedidoAposEspera ==
    /\ ultimo.acao \in {"runAutocomplete", "autocomplete"}
    /\ ultimo.pediu
    /\ ultimo.agora = AlteradaEm + 350
    /\ AlteradaEm > 0

\* C19: every search action of FormPage leaves K, r, p, dataAtual and
\* dataVencimento unchanged, and changes S (sigma) only to the price (the
\* annual volatility) of the item it applies, and only when that is defined.
C19_SoPrecoEVolatilidade ==
    componente = "FormPage" =>
       LET antes == ultimo.formAntes
           item  == ultimo.aplicado
       IN  /\ \A campo \in {"K", "r", "p", "dataAtual", "dataVencimento"} :
                 form[campo] = antes[campo]
           /\ form.S =
                 IF item # <<>> /\ item[1].price # <<>>
                 THEN String(item[1].price[1]) ELSE antes.S
           /\ form.sigma =
                 IF item # <<>> /\ item[1].volAnnual # <<>>
                 THEN String(item[1].volAnnual[1]) ELSE antes.sigma

\* the item chosen has a volatility and no price: only sigma is written
C19_SoVolatilidade ==
    /\ componente = "FormPage"
    /\ ultimo.acao = "select"
    /\ ultimo.aplicado[1].price = <<>>
    /\ form.sigma = <<"0", ".", "2", "5">>
    /\ form.S = <<"1", "0", ".", "5">>
    /\ form.K = initialState.K

\* an autocomplete request of the component was started and has neither
\* completed nor been aborted
PedidoPendente ==
    \E q \in pedidos :
       /\ ~q.abortado
       /\ \/ componente = "useAssetSearch" /\ q.tipo = "autocomplete"
          \/ componente = "FormPage" /\ q.origem = "autocomplete"

\* C21: the loading flag (loadingAutocomplete in useAssetSearch, searchLoading
\* in FormPage) is true in every state in which an autocomplete request has
\* been started and has neither completed nor been aborted, also after an
\* earlier request was aborted by a newer one.
C21_CarregandoEnquantoPendente ==
    PedidoPendente =>
       IF componente = "useAssetSearch" THEN hook.loadingAutocomplete
       ELSE pesquisa.searchLoading

(***************************************************************************)
(* The round trip of a date text: parseDate reads it, formatDateInput       *)
(* writes the Date it gave (dateHelpers.ts).                                *)
(***************************************************************************)

\* the first n characters of padString repeated
RECURSIVE Repetido(_, _)
Repetido(padString, n) ==
    IF n <= 0 \/ padString = <<>> THEN <<>>
    ELSE IF n <= Len(padString) THEN SubSeq(padString, 1, n)
    ELSE padString \o Repetido(padString, n - Len(padString))

\* String.prototype.padStart(targetLength, padString)
padStart(text, targetLength, padString) ==
    IF Len(text) >= targetLength THEN text
    ELSE Repetido(padString, targetLength - Len(text)) \o text

\* `${n}` of what a getter of a Date returned
TextoDoGetter(date, n) ==
    IF date.nan THEN String(NaN) ELSE String(NumOfInt(n))

\* formatDateInput(date), on a host whose time zone is zone hours ahead of UTC
formatDateInput(zone, date) ==
    LET year  == TextoDoGetter(date, getFullYear(zone, date))
        month == padStart(TextoDoGetter(date, getMonth(zone, date) + 1), 2, <<"0">>)
        day   == padStart(TextoDoGetter(date, getDate(zone, date)), 2, <<"0">>)
    IN  day \o <<"/">> \o month \o <<"/">> \o year

\* the dates written: days, months and years of the calendar
DiasEscritos == {1, 15, 28, 29, 31}
MesesEscritos == {1, 2, 12}
AnosEscritos == {50, 1999, 2024}

\* the number of days of month m of year y
DiasDoMes(y, m) ==
    IF m = 2
    THEN IF y % 4 = 0 /\ (y % 100 # 0 \/ y % 400 = 0) THEN 29 ELSE 28
    ELSE IF m \in {4, 6, 9, 11} THEN 30 ELSE 31

DatasDoCalendario ==
    {c \in DiasEscritos \X MesesEscritos \X AnosEscritos :
        c[1] <= DiasDoMes(c[3], c[2])}

\* the zero-padded text DD/MM/AAAA of the date c = <<day, month, year>>
TextoDaData(c) ==
    <<Algarismos[(c[1] \div 10) + 1], Algarismos[(c[1] % 10) + 1], "/",
      Algarismos[(c[2] \div 10) + 1], Algarismos[(c[2] % 10) + 1], "/">>
    \o DigitosDoLimb(c[3])

InitVolta ==
    /\ pc = {}
    /\ tz \in Fusos
    /\ dataAtual = Nenhum
    /\ dataVencimento = Nenhum
    /\ diasUteis = Nenhum
    /\ anos = Nenhum
    /\ entrada = Nenhum
    /\ classico = Nenhum
    /\ modificado = Nenhum
    /\ ponto = Nenhum
    /\ cdf = Nenhum
    /\ SemLaco
    /\ SemForm
    /\ SemBusca
    /\ volta \in {[passo |-> "escrita", s |-> TextoDaData(c), data |-> Nulo,
                   texto |-> <<>>] : c \in DatasDoCalendario}

ForaDaVolta == UNCHANGED <<varsNucleo, varsLaco, varsForm, varsBusca>>

\* parseDate(s) is called
LerData ==
    /\ volta.passo = "escrita"
    /\ \E lida \in {Call("parseDate", <<volta.s>>)} :
          volta' = [volta EXCEPT !.passo = "lida", !.data = lida]
    /\ ForaDaVolta

\* formatDateInput is called with the Date parseDate returned
EscreverData ==
    /\ volta.passo = "lida"
    /\ ~volta.data.nulo
    /\ \E texto \in {formatDateInput(tz, volta.data.data)} :
          volta' = [volta EXCEPT !.passo = "reescrita", !.texto = texto]
    /\ ForaDaVolta

NextVolta == LerData \/ EscreverData

SpecVolta == InitVolta /\ [][NextVolta]_vars

\* C22: for every valid calendar date written as zero-padded DD/MM/AAAA text
\* s and every host time-zone offset, parseDate(s) is not null and
\* formatDateInput(parseDate(s)) is s.
C22_DataIdaEVolta ==
    /\ volta.passo # "escrita" => ~volta.data.nulo
    /\ volta.passo = "reescrita" => volta.texto = volta.s

====
